---- MODULE Spec2Model ----
(***************************************************************************)
(* IFSCee: tokenizer (lexer.js), parser (parser.js), trace generator       *)
(* (interpreter.js) and the application state with its event handlers      *)
(* (state.js, event-handlers.js).                                          *)
(*                                                                         *)
(* Source text is a TLA+ string; offsets are the 0-based offsets of the    *)
(* JavaScript code, lines and columns are 1-based as in Token.             *)
(***************************************************************************)
EXTENDS Integers, Sequences, FiniteSets, TLC

(***************************************************************************)
(* String primitives of the JavaScript runtime used by the code            *)
(***************************************************************************)

\* a local constant: Body applied to the value v
Let(v, Body(_)) == Body(v)

\* s[p] for a 0-based offset p; "" past the end (JS gives undefined)
CharAt(s, p) == IF p >= 0 /\ p < Len(s) THEN SubSeq(s, p + 1, p + 1) ELSE ""

\* s.substring(a, b)
Substring(s, a, b) ==
  LET lo == IF a < 0 THEN 0 ELSE IF a > Len(s) THEN Len(s) ELSE a
      hi == IF b < 0 THEN 0 ELSE IF b > Len(s) THEN Len(s) ELSE b
  IN  IF lo <= hi THEN SubSeq(s, lo + 1, hi) ELSE SubSeq(s, hi + 1, lo)

\* s.startsWith(w, p)
StartsWithAt(s, p, w) ==
  /\ p >= 0
  /\ p + Len(w) <= Len(s)
  /\ SubSeq(s, p + 1, p + Len(w)) = w

\* s.indexOf(w, from): least offset >= from where w occurs, -1 if none
IndexOf(s, w, from) ==
  LET f    == IF from < 0 THEN 0 ELSE from
      hits == {p \in f..Len(s) : StartsWithAt(s, p, w)}
  IN  IF hits = {} THEN -1 ELSE CHOOSE p \in hits : \A q \in hits : p <= q

\* s.lastIndexOf(w)
LastIndexOf(s, w) ==
  LET hits == {p \in 0..Len(s) : StartsWithAt(s, p, w)}
  IN  IF hits = {} THEN -1 ELSE CHOOSE p \in hits : \A q \in hits : p >= q

\* s.includes(w)
Includes(s, w) == IndexOf(s, w, 0) # -1

UpperCaseLetters == "ABCDEFGHIJKLMNOPQRSTUVWXYZ"

LowerCaseLetters == "abcdefghijklmnopqrstuvwxyz"

LowerChar(c) ==
  LET k == IndexOf(UpperCaseLetters, c, 0)
  IN  IF Len(c) = 1 /\ k # -1 THEN CharAt(LowerCaseLetters, k) ELSE c

RECURSIVE ToLowerCase(_)
\* s.toLowerCase(): each character mapped, the halves joined
ToLowerCase(s) ==
  IF Len(s) = 0 THEN ""
  ELSE IF Len(s) = 1 THEN LowerChar(s)
  ELSE ToLowerCase(SubSeq(s, 1, Len(s) \div 2)) \o
       ToLowerCase(SubSeq(s, Len(s) \div 2 + 1, Len(s)))

\* character classes of the regular expressions: \s, \d, \w, [0-9a-fA-F]
WhitespaceChars == {" ", "\t", "\n", "\r", "\f"}

DigitChars == {"0", "1", "2", "3", "4", "5", "6", "7", "8", "9"}

WordChars ==
  {CharAt(UpperCaseLetters, k) : k \in 0..25} \cup
  {CharAt(LowerCaseLetters, k) : k \in 0..25} \cup DigitChars \cup {"_"}

HexChars == DigitChars \cup {"a", "b", "c", "d", "e", "f",
                             "A", "B", "C", "D", "E", "F"}

\* length of the longest run of characters of class cls starting at offset p
RunLength(s, p, cls) ==
  LET stops == {q \in p..Len(s) : q = Len(s) \/ CharAt(s, q) \notin cls}
  IN  IF p >= Len(s) THEN 0
      ELSE (CHOOSE q \in stops : \A r \in stops : q <= r) - p

\* length of the leading whitespace of s (the match of /^\s*/)
LeadingWhitespace(s) == RunLength(s, 0, WhitespaceChars)

\* length of the trailing whitespace of s
TrailingWhitespace(s) ==
  LET stops == {q \in 0..Len(s) : q = 0 \/ CharAt(s, q - 1) \notin WhitespaceChars}
  IN  Len(s) - (CHOOSE q \in stops : \A r \in stops : q >= r)

\* s.trim()
Trim(s) ==
  LET a == LeadingWhitespace(s)
  IN  IF a = Len(s) THEN ""
      ELSE SubSeq(s, a + 1, Len(s) - TrailingWhitespace(s))

RECURSIVE SplitLines(_)
\* s.split('\n')
SplitLines(s) ==
  LET k == IndexOf(s, "\n", 0)
  IN  IF k = -1 THEN <<s>>
      ELSE <<SubSeq(s, 1, k)>> \o SplitLines(SubSeq(s, k + 2, Len(s)))

RECURSIVE SplitWhitespace(_)
\* s.split(/\s+/)
SplitWhitespace(s) ==
  LET hits == {p \in 0..(Len(s) - 1) : CharAt(s, p) \in WhitespaceChars}
  IN  IF hits = {} THEN <<s>>
      ELSE LET k == CHOOSE p \in hits : \A q \in hits : p <= q
               n == RunLength(s, k, WhitespaceChars)
           IN  <<SubSeq(s, 1, k)>> \o SplitWhitespace(SubSeq(s, k + n + 1, Len(s)))

(***************************************************************************)
(* Lexer (lexer.js)                                                        *)
(***************************************************************************)

Keywords ==
  {"auto", "break", "case", "char", "const", "continue", "default", "do",
   "double", "else", "enum", "extern", "float", "for", "goto", "if",
   "inline", "int", "long", "register", "restrict", "return", "short",
   "signed", "sizeof", "static", "struct", "switch", "typedef", "union",
   "unsigned", "void", "volatile", "while", "_Bool", "_Complex", "_Imaginary"}

StdFunctions ==
  {"printf", "scanf", "malloc", "free", "calloc", "realloc", "strlen",
   "strcpy", "strcat", "strcmp", "fopen", "fclose", "fread", "fwrite",
   "fprintf", "fscanf", "fgets", "fputs", "fseek", "ftell", "rewind"}

OperatorsArithmetic == {"+", "-", "*", "/", "%", "++", "--"}

OperatorsRelational == {"==", "!=", ">", "<", ">=", "<="}

OperatorsLogical == {"&&", "||", "!"}

OperatorsBitwise == {"&", "|", "^", "~", "<<", ">>"}

OperatorsAssignment ==
  {"=", "+=", "-=", "*=", "/=", "%=", "&=", "|=", "^=", "<<=", ">>="}

Punctuation ==
  {"{", "}", "(", ")", "[", "]", ";", ",", ".", "->", ":", "?", "<", ">"}

\* new Token(type, value, line, column)
Token(type, value, line, column) ==
  [type |-> type, value |-> value, line |-> line, column |-> column]

\* the offsets of the newline characters of the code, ascending
NewlinePositions(code) ==
  LET IsNewline(p) == CharAt(code, p) = "\n"
  IN  SelectSeq([k \in 1..Len(code) |-> k - 1], IsNewline)

\* Lexer.getLineColumnFromPos
getLineColumnFromPos(pos, newlinePositions) ==
  LET RECURSIVE Scan(_)
      Scan(line) ==
        IF line < Len(newlinePositions) /\ newlinePositions[line + 1] < pos
          THEN Scan(line + 1)
          ELSE line
      line         == Scan(0)
      lineStartPos == IF line = 0 THEN 0 ELSE newlinePositions[line] + 1
  IN  [line |-> line + 1, column |-> (pos - lineStartPos) + 1]

\* Lexer.isWithinDirective
isWithinDirective(pos, directivePositions) ==
  \E k \in 1..Len(directivePositions) :
    pos >= directivePositions[k].start /\ pos < directivePositions[k].end

\* Lexer.findDirectivePosition
findDirectivePosition(code, lineIndex) ==
  LET lines == SplitLines(code)
      RECURSIVE Before(_)
      Before(i) == IF i = 0 THEN 0 ELSE Before(i - 1) + Len(lines[i]) + 1
  IN  Before(lineIndex) + LeadingWhitespace(lines[lineIndex + 1])

\* the directive lines found by the pre-scan: {text, line, start}
Directives(code) ==
  LET lines == SplitLines(code)
      RECURSIVE Collect(_)
      Collect(i) ==
        IF i >= Len(lines) THEN <<>>
        ELSE (IF StartsWithAt(Trim(lines[i + 1]), 0, "#")
                THEN <<[text  |-> Trim(lines[i + 1]),
                        line  |-> i + 1,
                        start |-> findDirectivePosition(code, i)]>>
                ELSE <<>>) \o Collect(i + 1)
  IN  Collect(0)

\* the spans claimed by the directives: {start, end}
DirectivePositions(directives) ==
  [k \in 1..Len(directives) |->
     [start |-> directives[k].start,
      end   |-> directives[k].start + Len(directives[k].text)]]

\* the tokens pushed for one directive
DirectiveTokens(directive, newlinePositions) ==
  LET text    == directive.text
      command == SplitWhitespace(text)[1]
      lc      == getLineColumnFromPos(directive.start, newlinePositions)
      line    == lc.line
      column  == lc.column
      first   == <<Token("preprocessor", command, line, column)>>
  IN  IF command = "#include" THEN
        LET rest       == Trim(Substring(text, 8, Len(text)))
            includePos == column + Len(command)
        IN  IF StartsWithAt(rest, 0, "<") /\ Includes(rest, ">") THEN
              LET fileName        == Substring(rest, 1, IndexOf(rest, ">", 0))
                  leftBracketPos  == includePos + IndexOf(text, "<", 8) - 8
                  fileNamePos     == leftBracketPos + 1
                  rightBracketPos == fileNamePos + Len(fileName)
              IN  first \o <<Token("punctuation", "<", line, leftBracketPos),
                             Token("identifier", fileName, line, fileNamePos),
                             Token("punctuation", ">", line, rightBracketPos)>>
            ELSE IF StartsWithAt(rest, 0, "\"") /\ IndexOf(rest, "\"", 1) # -1 THEN
              LET fileName      == Substring(rest, 1, LastIndexOf(rest, "\""))
                  leftQuotePos  == includePos + IndexOf(text, "\"", 8) - 8
                  fileNamePos   == leftQuotePos + 1
                  rightQuotePos == fileNamePos + Len(fileName)
              IN  first \o <<Token("punctuation", "\"", line, leftQuotePos),
                             Token("identifier", fileName, line, fileNamePos),
                             Token("punctuation", "\"", line, rightQuotePos)>>
            ELSE first
      ELSE IF command = "#define" THEN
        LET all          == SplitWhitespace(Trim(Substring(text, 7, Len(text))))
            parts        == IF Len(all) > 2 THEN SubSeq(all, 1, 2) ELSE all
            macroName    == parts[1]
            macroNamePos == column + IndexOf(text, macroName, 7)
            nameToken    == <<Token("identifier", macroName, line, macroNamePos)>>
        IN  IF Len(parts) > 1
              THEN first \o nameToken \o
                   <<Token("literal", parts[2], line,
                           macroNamePos + Len(macroName) + 1)>>
              ELSE first \o nameToken
      ELSE first

\* the operator alternatives of the regular expression, in its order
RegexOperators ==
  <<"++", "--", "==", "!=", "<=", ">=", "&&", "||", "<<", ">>", "+=", "-=",
    "*=", "/=", "%=", "&=", "|=", "^=", "<<=", ">>=", "->">>

\* the single-character class that ends the operator alternatives
RegexSingleChars ==
  {"+", "-", "*", "/", "%", "=", "<", ">", "&", "|", "^", "!", "~", ".", ",",
   ";", ":", "?", "[", "]", "{", "}", "(", ")"}

\* length of the match of (?:\\.|[^q\\])* followed by the quote q, from
\* offset p just after the opening quote; -1 when the literal is not closed.
\* An offset r is where the repetition can stand when the backslashes just
\* before it (back to p) are even in number; the literal closes at the first
\* such r holding q, unless a backslash standing before it has no character
\* other than a line terminator after it.
QuotedBody(code, p, q) ==
  LET Backslashes(r) ==
        LET others == {j \in (p - 1)..(r - 1) : j = p - 1 \/ CharAt(code, j) # "\\"}
        IN  r - 1 - (CHOOSE j \in others : \A k \in others : j >= k)
      Standing(r) == Backslashes(r) % 2 = 0
      closes == {r \in p..(Len(code) - 1) : CharAt(code, r) = q /\ Standing(r)}
      close  == IF closes = {} THEN Len(code)
                ELSE CHOOSE r \in closes : \A k \in closes : r <= k
      stuck  == {b \in p..(close - 1) :
                   /\ CharAt(code, b) = "\\" /\ Standing(b)
                   /\ (b + 1 >= Len(code) \/ CharAt(code, b + 1) \in {"\n", "\r"})}
  IN  IF closes = {} \/ stuck # {} THEN -1 ELSE close - p + 1

\* group 1 of the regular expression at offset p: length, 0 if no match
MatchComment(code, p) ==
  IF StartsWithAt(code, p, "//") THEN
    LET eol == IndexOf(code, "\n", p)
    IN  IF eol = -1 THEN Len(code) - p ELSE eol - p
  ELSE IF StartsWithAt(code, p, "/*") /\ IndexOf(code, "*/", p + 2) # -1
    THEN IndexOf(code, "*/", p + 2) + 2 - p
  ELSE 0

\* group 2: \d+\.\d+ | \d+ | 0x[0-9a-fA-F]+
MatchNumber(code, p) ==
  Let(RunLength(code, p, DigitChars), LAMBDA d1 :
    IF d1 > 0 /\ CharAt(code, p + d1) = "." /\
       RunLength(code, p + d1 + 1, DigitChars) > 0
      THEN d1 + 1 + RunLength(code, p + d1 + 1, DigitChars)
    ELSE IF d1 > 0 THEN d1
    ELSE IF StartsWithAt(code, p, "0x") /\ RunLength(code, p + 2, HexChars) > 0
      THEN 2 + RunLength(code, p + 2, HexChars)
    ELSE 0)

\* group 3: string and character literals
MatchString(code, p) ==
  IF CharAt(code, p) \in {"\"", "'"}
    THEN Let(QuotedBody(code, p + 1, CharAt(code, p)), LAMBDA r :
           IF r = -1 THEN 0 ELSE 1 + r)
    ELSE 0

\* group 4: the first operator alternative that matches at p
MatchOperator(code, p) ==
  LET hits == {k \in 1..Len(RegexOperators) : StartsWithAt(code, p, RegexOperators[k])}
  IN  IF hits # {}
        THEN Len(RegexOperators[CHOOSE k \in hits : \A j \in hits : k <= j])
      ELSE IF CharAt(code, p) \in RegexSingleChars THEN 1
      ELSE 0

\* group 5: \w+
MatchWord(code, p) == RunLength(code, p, WordChars)

\* the first of the group matches (their lengths, in group order) that is
\* not empty; group 0 when all are
FirstGroup(lengths) ==
  Let({g \in 1..Len(lengths) : lengths[g] > 0}, LAMBDA matching :
    IF matching = {} THEN [group |-> 0, len |-> 0]
    ELSE Let(CHOOSE g \in matching : \A h \in matching : g <= h, LAMBDA g :
           [group |-> g, len |-> lengths[g]]))

\* the match of the whole regular expression at offset p: the first group,
\* in order, that matches there; group 0 when none does
MatchAt(code, p) ==
  FirstGroup(<<MatchComment(code, p), MatchNumber(code, p), MatchString(code, p),
               MatchOperator(code, p), MatchWord(code, p)>>)

\* Lexer.isTokenOfType over the operator and punctuation sets, and the
\* keyword / standard function / identifier choice
TokenType(group, value) ==
  IF group \in {2, 3} THEN "literal"
  ELSE IF group = 4 THEN
    IF value \in OperatorsArithmetic \cup OperatorsRelational \cup
                 OperatorsLogical \cup OperatorsBitwise \cup OperatorsAssignment
      THEN "operator"
    ELSE IF value \in Punctuation THEN "punctuation"
    ELSE ""
  ELSE IF group = 5 THEN
    IF value \in Keywords THEN "keyword"
    ELSE IF value \in StdFunctions THEN "function"
    ELSE "identifier"
  ELSE ""

\* where regex.exec looks next after looking at offset p: past the match
\* found at p, or at the next offset when nothing matches at p
ExecNext(code, p) ==
  IF p >= Len(code) THEN Len(code)
  ELSE Let(MatchAt(code, p), LAMBDA m : IF m.group = 0 THEN p + 1 ELSE p + m.len)

RECURSIVE ExecIterate(_, _, _)
\* the offset reached from p after n such moves
ExecIterate(code, p, n) ==
  IF n = 0 THEN p
  ELSE IF n = 1 THEN ExecNext(code, p)
  ELSE Let(ExecIterate(code, p, n \div 2), LAMBDA mid :
         IF mid >= Len(code) THEN Len(code)
         ELSE ExecIterate(code, mid, n - n \div 2))

RECURSIVE ExecFrom(_, _, _)
\* the offsets below Len(code) among the n that regex.exec looks at in
\* turn, starting with p
ExecFrom(code, p, n) ==
  IF n = 0 \/ p >= Len(code) THEN <<>>
  ELSE IF n = 1 THEN <<p>>
  ELSE Let(ExecIterate(code, p, n \div 2), LAMBDA mid :
         ExecFrom(code, p, n \div 2) \o
         (IF mid >= Len(code) THEN <<>> ELSE ExecFrom(code, mid, n - n \div 2)))

\* the offsets regex.exec looks at from lastIndex 0 to the end of the code
ExecOffsets(code) == ExecFrom(code, 0, Len(code))

\* the token the loop over regex.exec(code) pushes for the match m at
\* offset p; type "" when it pushes none (a comment, a directive's span, or
\* a match that is no token)
RegexToken(code, p, m, newlinePositions, directivePositions) ==
  Let(SubSeq(code, p + 1, p + m.len), LAMBDA value :
  Let(getLineColumnFromPos(p, newlinePositions), LAMBDA lc :
    Token(IF m.group \in {0, 1} \/ isWithinDirective(p, directivePositions)
            THEN "" ELSE TokenType(m.group, value),
          value, lc.line, lc.column)))

\* the loop over regex.exec(code): the tokens pushed, in match order
RegexTokens(code, newlinePositions, directivePositions) ==
  Let(ExecOffsets(code), LAMBDA offsets :
    LET IsToken(t) == t.type # ""
    IN  SelectSeq([k \in 1..Len(offsets) |->
                     RegexToken(code, offsets[k], MatchAt(code, offsets[k]),
                                newlinePositions, directivePositions)],
                  IsToken))

\* the comparator of tokens.sort: a sorts before b
TokenBefore(a, b) ==
  IF a.line # b.line THEN a.line < b.line ELSE a.column < b.column

\* Array.prototype.sort with that comparator (a stable sort): the token at
\* index k goes to the place given by the number of tokens that sort before
\* it, or compare equal to it and precede it in ts
SortTokens(ts) ==
  LET Rank(k) == 1 + Cardinality({j \in 1..Len(ts) :
                        \/ TokenBefore(ts[j], ts[k])
                        \/ (~TokenBefore(ts[k], ts[j]) /\ j < k)})
  IN  [r \in 1..Len(ts) |-> ts[CHOOSE k \in 1..Len(ts) : Rank(k) = r]]

\* the tokens of all directives, in the order of the directives
RECURSIVE FromDirectives(_, _, _)
FromDirectives(directives, k, newlinePositions) ==
  IF k > Len(directives) THEN <<>>
  ELSE DirectiveTokens(directives[k], newlinePositions) \o
       FromDirectives(directives, k + 1, newlinePositions)

\* Lexer.tokenize
tokenize(code) ==
  Let(NewlinePositions(code), LAMBDA newlinePositions :
  Let(Directives(code), LAMBDA directives :
    SortTokens(FromDirectives(directives, 1, newlinePositions) \o
               RegexTokens(code, newlinePositions, DirectivePositions(directives)))))

(***************************************************************************)
(* Parser (parser.js)                                                      *)
(*                                                                         *)
(* currentTokenIndex is the 0-based index i.  Every parse method returns   *)
(* [st, node, i, msg]: st = "ok" with the node built and the index after   *)
(* it, st = "error" when the method throws (msg is the Error's message),   *)
(* st = "hang" when it enters a loop whose body changes nothing and whose  *)
(* condition stays true.                                                    *)
(***************************************************************************)

\* Number.prototype.toString for the line numbers put into messages
RECURSIVE NumberToString(_)
NumberToString(n) ==
  IF n < 10 THEN CharAt("0123456789", n)
  ELSE NumberToString(n \div 10) \o CharAt("0123456789", n % 10)

\* new ASTNode(type, value): value is <<>> for null, <<v>> otherwise
ASTNode(type, value) == [type |-> type, value |-> value, children |-> <<>>]

\* ASTNode.addChild
addChild(node, child) == [node EXCEPT !.children = Append(@, child)]

NoNode == ASTNode("", <<>>)

Ok(node, i) == [st |-> "ok", node |-> node, i |-> i, msg |-> ""]

Thrown(msg, i) == [st |-> "error", node |-> NoNode, i |-> i, msg |-> msg]

Hang(i) == [st |-> "hang", node |-> NoNode, i |-> i, msg |-> ""]

\* Parser.operators.assignment
ParserAssignmentOperators ==
  {"=", "+=", "-=", "*=", "/=", "%=", "&=", "|=", "^=", "<<=", ">>="}

\* Parser.getCurrentToken is tokens[i + 1] when HasToken
HasToken(tokens, i) == i < Len(tokens)

\* Parser.checkType
checkType(tokens, i, type) == HasToken(tokens, i) /\ tokens[i + 1].type = type

\* Parser.checkValue
checkValue(tokens, i, value) == HasToken(tokens, i) /\ tokens[i + 1].value = value

\* Parser.consume(type, value): value is <<>> when omitted. The result's
\* node is unused; its i is the index after the consumed token.
consume(tokens, i, type, value) ==
  IF ~HasToken(tokens, i) THEN
    Thrown("Expected token of type " \o type \o ", but reached end of tokens", i)
  ELSE
    LET token == tokens[i + 1]
    IN  IF token.type # type \/ (value # <<>> /\ token.value # value[1]) THEN
          Thrown("Expected token of type " \o type \o
                 (IF value # <<>> /\ value[1] # ""
                    THEN " with value '" \o value[1] \o "'" ELSE "") \o
                 ", but found " \o token.type \o " '" \o token.value \o
                 "' at line " \o NumberToString(token.line), i)
        ELSE Ok(NoNode, i + 1)

\* Parser.tryConsume: the index after the call
tryConsume(tokens, i, type, value) ==
  IF checkType(tokens, i, type) /\ (value = <<>> \/ tokens[i + 1].value = value[1])
    THEN i + 1 ELSE i

\* the message of the throw at the end of parsePrimaryFactor; reading
\* token.type of a null token is a TypeError
UnexpectedInExpression(tokens, i) ==
  IF ~HasToken(tokens, i)
    THEN "Cannot read properties of null (reading 'type')"
    ELSE "Unexpected token while parsing expression: " \o tokens[i + 1].type \o
         " '" \o tokens[i + 1].value \o "' at line " \o NumberToString(tokens[i + 1].line)

\* a binary expression node
Binary(type, operator, left, right) ==
  addChild(addChild(ASTNode(type, <<operator>>), left), right)

\* sequencing of two parse steps: when the first throws or loops, so does
\* the whole; otherwise the rest runs with its result
Bind(r, Rest(_)) == IF r.st # "ok" THEN r ELSE Rest(r)

RECURSIVE parseAssignment(_, _), parseLogicalExpression(_, _),
          parseRelationalExpression(_, _), parseAdditiveExpression(_, _),
          parseMultiplicativeExpression(_, _), parseUnaryExpression(_, _),
          parsePrimaryFactor(_, _), BinaryLoop(_, _, _, _),
          ParseOperand(_, _, _), ArgumentLoop(_, _, _)

\* Parser.parseExpression
parseExpression(tokens, i) == parseAssignment(tokens, i)

\* LevelOperators with the additive and the multiplicative operators
\* exchanged
LevelOperatorsExchanged(level) ==
  CASE level = "logical_expression"        -> {"&&", "||"}
    [] level = "relational_expression"     -> {"==", "!=", "<", ">", "<=", ">="}
    [] level = "additive_expression"       -> {"*", "/", "%"}
    [] level = "multiplicative_expression" -> {"+", "-"}

\* the operators, node type and operand level of each left-associative
\* loop (parseLogicalExpression .. parseMultiplicativeExpression)
LevelOperators(level) ==
  CASE level = "logical_expression"        -> {"&&", "||"}
    [] level = "relational_expression"     -> {"==", "!=", "<", ">", "<=", ">="}
    [] level = "additive_expression"       -> {"+", "-"}
    [] level = "multiplicative_expression" -> {"*", "/", "%"}

\* the operand parser of a level
ParseOperand(level, tokens, i) ==
  CASE level = "logical_expression"        -> parseRelationalExpression(tokens, i)
    [] level = "relational_expression"     -> parseAdditiveExpression(tokens, i)
    [] level = "additive_expression"       -> parseMultiplicativeExpression(tokens, i)
    [] level = "multiplicative_expression" -> parseUnaryExpression(tokens, i)

\* the while loop of a binary level: left is the tree built so far
BinaryLoop(level, tokens, i, left) ==
  IF checkType(tokens, i, "operator") /\ tokens[i + 1].value \in LevelOperators(level)
    THEN Bind(ParseOperand(level, tokens, i + 1), LAMBDA right :
           BinaryLoop(level, tokens, right.i,
                      Binary(level, tokens[i + 1].value, left, right.node)))
    ELSE Ok(left, i)

\* a binary level: first operand, then the loop
BinaryLevel(level, tokens, i) ==
  Bind(ParseOperand(level, tokens, i), LAMBDA left :
    BinaryLoop(level, tokens, left.i, left.node))

\* Parser.parseAssignment
parseAssignment(tokens, i) ==
  Bind(parseLogicalExpression(tokens, i), LAMBDA left :
    IF checkType(tokens, left.i, "operator") /\
       tokens[left.i + 1].value \in ParserAssignmentOperators
      THEN Bind(parseAssignment(tokens, left.i + 1), LAMBDA right :
             Ok(Binary("assignment_expression", tokens[left.i + 1].value,
                       left.node, right.node), right.i))
      ELSE left)

\* Parser.parseLogicalExpression
parseLogicalExpression(tokens, i) == BinaryLevel("logical_expression", tokens, i)

\* Parser.parseRelationalExpression
parseRelationalExpression(tokens, i) == BinaryLevel("relational_expression", tokens, i)

\* Parser.parseAdditiveExpression
parseAdditiveExpression(tokens, i) == BinaryLevel("additive_expression", tokens, i)

\* Parser.parseMultiplicativeExpression
parseMultiplicativeExpression(tokens, i) ==
  BinaryLevel("multiplicative_expression", tokens, i)

\* the prefix operators of parseUnaryExpression
UnaryOperators == {"+", "-", "!", "~", "++", "--", "*", "&"}

\* Parser.parseUnaryExpression
parseUnaryExpression(tokens, i) ==
  IF checkType(tokens, i, "operator") /\ tokens[i + 1].value \in UnaryOperators
    THEN Bind(parseUnaryExpression(tokens, i + 1), LAMBDA operand :
           Ok(addChild(ASTNode("unary_expression", <<tokens[i + 1].value>>),
                       operand.node), operand.i))
    ELSE parsePrimaryFactor(tokens, i)

\* the do-while over the arguments of a call: callNode so far, index i
ArgumentLoop(tokens, i, callNode) ==
  Bind(IF checkValue(tokens, i, ",")
         THEN consume(tokens, i, "punctuation", <<",">>)
         ELSE Ok(NoNode, i), LAMBDA comma :
  Bind(parseExpression(tokens, comma.i), LAMBDA argument :
    IF checkValue(tokens, argument.i, ",")
      THEN ArgumentLoop(tokens, argument.i, addChild(callNode, argument.node))
      ELSE Ok(addChild(callNode, argument.node), argument.i)))

\* Parser.parsePrimaryFactor
parsePrimaryFactor(tokens, i) ==
  IF checkType(tokens, i, "literal") THEN
    Ok(ASTNode("literal", <<tokens[i + 1].value>>), i + 1)
  ELSE IF checkType(tokens, i, "identifier") THEN
    IF checkValue(tokens, i + 1, "(") THEN
      Bind(consume(tokens, i + 1, "punctuation", <<"(">>), LAMBDA open :
      Bind(IF ~checkValue(tokens, open.i, ")")
             THEN ArgumentLoop(tokens, open.i,
                               ASTNode("call_expression", <<tokens[i + 1].value>>))
             ELSE Ok(ASTNode("call_expression", <<tokens[i + 1].value>>), open.i),
           LAMBDA args :
      Bind(consume(tokens, args.i, "punctuation", <<")">>), LAMBDA close :
        Ok(args.node, close.i))))
    ELSE IF checkValue(tokens, i + 1, "[") THEN
      Bind(consume(tokens, i + 1, "punctuation", <<"[">>), LAMBDA open :
      Bind(parseExpression(tokens, open.i), LAMBDA index :
      Bind(consume(tokens, index.i, "punctuation", <<"]">>), LAMBDA close :
        Ok(addChild(ASTNode("array_access", <<tokens[i + 1].value>>), index.node),
           close.i))))
    ELSE Ok(ASTNode("identifier", <<tokens[i + 1].value>>), i + 1)
  ELSE IF checkValue(tokens, i, "(") THEN
    Bind(consume(tokens, i, "punctuation", <<"(">>), LAMBDA open :
    Bind(parseExpression(tokens, open.i), LAMBDA expression :
    Bind(consume(tokens, expression.i, "punctuation", <<")">>), LAMBDA close :
      Ok(expression.node, close.i))))
  ELSE Thrown(UnexpectedInExpression(tokens, i), i)

\* Parser.parseExpressionStatement
parseExpressionStatement(tokens, i) ==
  Bind(parseExpression(tokens, i), LAMBDA expression :
  Bind(consume(tokens, expression.i, "punctuation", <<";">>), LAMBDA semi :
    Ok(expression.node, semi.i)))

RECURSIVE parseCompoundStatement(_, _), BlockLoop(_, _, _),
          parseControlFlowStatement(_, _), DeclaratorLoop(_, _, _, _)

\* the block or single expression statement that follows a control header
ParseBody(tokens, i) ==
  IF checkValue(tokens, i, "{")
    THEN parseCompoundStatement(tokens, i)
    ELSE parseExpressionStatement(tokens, i)

\* the name part of one declarator: the variable node and the index after it
DeclaratorName(tokens, i) ==
  IF checkType(tokens, i, "identifier") THEN
    Ok(ASTNode("variable", <<tokens[i + 1].value>>), i + 1)
  ELSE IF checkValue(tokens, i, "*") THEN
    Bind(consume(tokens, i, "operator", <<"*">>), LAMBDA star :
    Bind(consume(tokens, star.i, "identifier", <<>>), LAMBDA name :
      Ok([type      |-> "variable",
          value     |-> <<tokens[star.i + 1].value>>,
          children  |-> <<>>,
          isPointer |-> TRUE], name.i)))
  ELSE Ok(ASTNode("variable", <<>>), i)

\* the do-while of parseVariableDeclaration: one declarator per pass
DeclaratorLoop(tokens, i, declarationNode, firstVar) ==
  Bind(IF ~firstVar THEN consume(tokens, i, "punctuation", <<",">>)
       ELSE Ok(NoNode, i), LAMBDA comma :
  Bind(DeclaratorName(tokens, comma.i), LAMBDA named :
  Bind(IF checkValue(tokens, named.i, "=")
         THEN Bind(consume(tokens, named.i, "operator", <<"=">>), LAMBDA eq :
              Bind(parseExpression(tokens, eq.i), LAMBDA valueNode :
                Ok(addChild(named.node, valueNode.node), valueNode.i)))
         ELSE named, LAMBDA varNode :
    IF checkValue(tokens, varNode.i, ",")
      THEN DeclaratorLoop(tokens, varNode.i,
                          addChild(declarationNode, varNode.node), FALSE)
      ELSE Ok(addChild(declarationNode, varNode.node), varNode.i))))

\* Parser.parseVariableDeclaration(type), entered at index i. The
\* assignment declarationNode.type = type replaces the node's kind.
parseVariableDeclaration(tokens, i, type) ==
  Bind(DeclaratorLoop(tokens, i,
                      [ASTNode("variable_declaration", <<>>) EXCEPT !.type = type],
                      TRUE), LAMBDA declared :
  Bind(consume(tokens, declared.i, "punctuation", <<";">>), LAMBDA semi :
    Ok(declared.node, semi.i)))

\* Parser.parseIfStatement
parseIfStatement(tokens, i) ==
  Bind(consume(tokens, i, "keyword", <<"if">>), LAMBDA kw :
  Bind(consume(tokens, kw.i, "punctuation", <<"(">>), LAMBDA open :
  Bind(parseExpression(tokens, open.i), LAMBDA condition :
  Bind(consume(tokens, condition.i, "punctuation", <<")">>), LAMBDA close :
  Bind(ParseBody(tokens, close.i), LAMBDA ifBlock :
    IF tryConsume(tokens, ifBlock.i, "keyword", <<"else">>) # ifBlock.i
      THEN Bind(ParseBody(tokens, ifBlock.i + 1), LAMBDA elseBlock :
             Ok(addChild(addChild(addChild(ASTNode("if_statement", <<>>),
                                           condition.node), ifBlock.node),
                         elseBlock.node), elseBlock.i))
      ELSE Ok(addChild(addChild(ASTNode("if_statement", <<>>), condition.node),
                       ifBlock.node), ifBlock.i))))))

\* ForClause that puts no node in the place of an omitted clause
ForClauseWithoutEmpty(tokens, i, terminator) ==
  Bind(IF ~checkValue(tokens, i, terminator)
         THEN parseExpression(tokens, i)
         ELSE Ok(NoNode, i), LAMBDA clause :
  Bind(consume(tokens, clause.i, "punctuation", <<terminator>>), LAMBDA term :
    Ok(clause.node, term.i)))

\* one clause of the for header: an expression, or an empty node when the
\* clause's terminator comes first; then the terminator is consumed
ForClause(tokens, i, terminator) ==
  Bind(IF ~checkValue(tokens, i, terminator)
         THEN parseExpression(tokens, i)
         ELSE Ok(ASTNode("empty", <<>>), i), LAMBDA clause :
  Bind(consume(tokens, clause.i, "punctuation", <<terminator>>), LAMBDA term :
    Ok(clause.node, term.i)))

\* Parser.parseForStatement
parseForStatement(tokens, i) ==
  Bind(consume(tokens, i, "keyword", <<"for">>), LAMBDA kw :
  Bind(consume(tokens, kw.i, "punctuation", <<"(">>), LAMBDA open :
  Bind(ForClause(tokens, open.i, ";"), LAMBDA initialization :
  Bind(ForClause(tokens, initialization.i, ";"), LAMBDA condition :
  Bind(ForClause(tokens, condition.i, ")"), LAMBDA increment :
  Bind(ParseBody(tokens, increment.i), LAMBDA body :
    Ok(addChild(addChild(addChild(addChild(
         ASTNode("for_statement", <<>>),
         initialization.node), condition.node), increment.node), body.node),
       body.i)))))))

\* Parser.parseWhileStatement
parseWhileStatement(tokens, i) ==
  Bind(consume(tokens, i, "keyword", <<"while">>), LAMBDA kw :
  Bind(consume(tokens, kw.i, "punctuation", <<"(">>), LAMBDA open :
  Bind(parseExpression(tokens, open.i), LAMBDA condition :
  Bind(consume(tokens, condition.i, "punctuation", <<")">>), LAMBDA close :
  Bind(ParseBody(tokens, close.i), LAMBDA body :
    Ok(addChild(addChild(ASTNode("while_statement", <<>>), condition.node),
                body.node), body.i))))))

\* Parser.parseReturnStatement
parseReturnStatement(tokens, i) ==
  Bind(consume(tokens, i, "keyword", <<"return">>), LAMBDA kw :
    IF ~checkValue(tokens, kw.i, ";")
      THEN Bind(parseExpression(tokens, kw.i), LAMBDA returnValue :
           Bind(consume(tokens, returnValue.i, "punctuation", <<";">>), LAMBDA semi :
             Ok(addChild(ASTNode("return_statement", <<>>), returnValue.node),
                semi.i)))
      ELSE Bind(consume(tokens, kw.i, "punctuation", <<";">>), LAMBDA semi :
             Ok(ASTNode("return_statement", <<>>), semi.i)))

\* Parser.parseControlFlowStatement
parseControlFlowStatement(tokens, i) ==
  IF tokens[i + 1].value = "if" THEN parseIfStatement(tokens, i)
  ELSE IF tokens[i + 1].value = "for" THEN parseForStatement(tokens, i)
  ELSE IF tokens[i + 1].value = "while" THEN parseWhileStatement(tokens, i)
  ELSE IF tokens[i + 1].value = "return" THEN parseReturnStatement(tokens, i)
  ELSE Thrown("Unsupported control flow structure: " \o tokens[i + 1].value, i)

\* the keywords parseCompoundStatement sends to parseControlFlowStatement
ControlFlowKeywords == {"if", "for", "while", "do", "switch", "return"}

\* the while loop of parseCompoundStatement: one statement per pass.  A
\* declaration is entered with the type keyword still the current token.
BlockLoop(tokens, i, blockNode) ==
  IF checkValue(tokens, i, "}") THEN Ok(blockNode, i)
  ELSE
    Bind(IF checkType(tokens, i, "keyword") THEN
           IF tokens[i + 1].value \in ControlFlowKeywords
             THEN parseControlFlowStatement(tokens, i)
             ELSE parseVariableDeclaration(tokens, i, tokens[i + 1].value)
         ELSE parseExpressionStatement(tokens, i), LAMBDA statement :
      BlockLoop(tokens, statement.i, addChild(blockNode, statement.node)))

\* Parser.parseCompoundStatement
parseCompoundStatement(tokens, i) ==
  Bind(consume(tokens, i, "punctuation", <<"{">>), LAMBDA open :
  Bind(BlockLoop(tokens, open.i, ASTNode("compound_statement", <<>>)), LAMBDA block :
  Bind(consume(tokens, block.i, "punctuation", <<"}">>), LAMBDA close :
    Ok(block.node, close.i))))

\* the do-while over the parameters in parseFunctionDefinition: a pass
\* that finds no type keyword consumes nothing, and the loop repeats while
\* the current token is not ')'
RECURSIVE ParameterLoop(_, _, _)
ParameterLoop(tokens, i, parameters) ==
  LET isParam   == checkType(tokens, i, "keyword")
      paramType == tokens[i + 1].value
      hasName   == checkType(tokens, i + 1, "identifier")
      paramName == IF hasName THEN tokens[i + 2].value ELSE ""
      afterName == IF hasName THEN i + 2 ELSE i + 1
      comma     == IF checkValue(tokens, afterName, ",")
                     THEN consume(tokens, afterName, "punctuation", <<",">>)
                     ELSE Ok(NoNode, afterName)
      list      == IF isParam
                     THEN Append(parameters, [type |-> paramType, name |-> paramName])
                     ELSE parameters
      next      == IF isParam THEN comma.i ELSE i
  IN  IF isParam /\ comma.st # "ok" THEN comma
      ELSE IF ~checkValue(tokens, next, ")") THEN
        IF next = i THEN Hang(i)
        ELSE ParameterLoop(tokens, next, list)
      ELSE [st |-> "ok", node |-> NoNode, i |-> next, msg |-> "", parameters |-> list]

\* Parser.parseFunctionDefinition(returnType), entered after the type
parseFunctionDefinition(tokens, i, returnType) ==
  Bind(consume(tokens, i, "identifier", <<>>), LAMBDA nameToken :
  Bind(consume(tokens, nameToken.i, "punctuation", <<"(">>), LAMBDA open :
  Bind(IF ~checkValue(tokens, open.i, ")")
         THEN ParameterLoop(tokens, open.i, <<>>)
         ELSE [st |-> "ok", node |-> NoNode, i |-> open.i, msg |-> "",
               parameters |-> <<>>], LAMBDA params :
  Bind(consume(tokens, params.i, "punctuation", <<")">>), LAMBDA close :
  Bind(parseCompoundStatement(tokens, close.i), LAMBDA body :
    Ok([type       |-> "function_definition",
        value      |-> <<tokens[i + 1].value>>,
        children   |-> <<body.node>>,
        returnType |-> returnType,
        parameters |-> params.parameters], body.i))))))

\* the look-ahead of parseTypeDeclaration from index j: TRUE when a '{' at
\* parenthesis depth 0 comes before a ';' at depth 0
RECURSIVE IsFunctionAhead(_, _, _)
IsFunctionAhead(tokens, j, nestedParentheses) ==
  IF j >= Len(tokens) THEN FALSE
  ELSE
    LET t     == tokens[j + 1]
        depth == IF t.value = "(" THEN nestedParentheses + 1
                 ELSE IF t.value = ")" THEN nestedParentheses - 1
                 ELSE nestedParentheses
    IN  IF depth = 0 /\ t.value = "{" THEN TRUE
        ELSE IF depth = 0 /\ t.value = ";" THEN FALSE
        ELSE IsFunctionAhead(tokens, j + 1, depth)

\* Parser.parseTypeDeclaration
parseTypeDeclaration(tokens, i) ==
  Bind(consume(tokens, i, "keyword", <<>>), LAMBDA typeToken :
    IF IsFunctionAhead(tokens, typeToken.i, 0)
      THEN parseFunctionDefinition(tokens, typeToken.i, tokens[i + 1].value)
      ELSE parseVariableDeclaration(tokens, typeToken.i, tokens[i + 1].value))

\* Parser.parsePreprocessorDirective
parsePreprocessorDirective(tokens, i) ==
  Bind(consume(tokens, i, "preprocessor", <<>>), LAMBDA token :
    Ok(ASTNode("preprocessor_directive", <<tokens[i + 1].value>>), token.i))

\* the while loop of parseProgram
RECURSIVE ProgramLoop(_, _, _)
ProgramLoop(tokens, i, root) ==
  IF ~HasToken(tokens, i) THEN Ok(root, i)
  ELSE
    Bind(IF checkType(tokens, i, "preprocessor")
           THEN parsePreprocessorDirective(tokens, i)
         ELSE IF checkType(tokens, i, "keyword")
           THEN parseTypeDeclaration(tokens, i)
         ELSE Thrown("Unexpected token in global scope: " \o tokens[i + 1].type \o
                     " '" \o tokens[i + 1].value \o "' at line " \o
                     NumberToString(tokens[i + 1].line), i), LAMBDA item :
      ProgramLoop(tokens, item.i, addChild(root, item.node)))

\* Parser.parseProgram
parseProgram(tokens) == ProgramLoop(tokens, 0, ASTNode("program", <<>>))

\* Parser.parse
parse(tokens) ==
  IF Len(tokens) = 0 THEN Thrown("No tokens to parse", 0)
  ELSE parseProgram(tokens)

(***************************************************************************)
(* Data model (state.js)                                                   *)
(***************************************************************************)

\* an absent property of an object literal, and the object {}
Absent == <<>>

\* ExecutionStep with the freed flag of every heap delta inverted
ExecutionStepFreedInverted(type, line, description, changes) ==
  [type |-> type, line |-> line, description |-> description,
   changes |-> [changes EXCEPT !.heap =
                  [a \in DOMAIN changes.heap |->
                     [changes.heap[a] EXCEPT !.freed = ~changes.heap[a].freed]]]]

\* ExecutionStep with a warning recorded as information
ExecutionStepWithoutWarning(type, line, description, changes) ==
  [type |-> IF type = "warning" THEN "information" ELSE type,
   line |-> line, description |-> description, changes |-> changes]

\* new ExecutionStep(type, line, description, changes).  changes always
\* carries the four properties the generators use; one the literal leaves
\* out is Absent ("" for saida).
ExecutionStep(type, line, description, changes) ==
  [type |-> type, line |-> line, description |-> description, changes |-> changes]

\* the changes literal with the given properties
Changes(memory, stack, heap, saida) ==
  [memory |-> memory, stack |-> stack, heap |-> heap, saida |-> saida]

\* the changes literal {}
NoChanges == Changes(Absent, Absent, Absent, "")

\* new StackFrame(functionName, returnAddress)
StackFrame(functionName, returnAddress) ==
  [functionName |-> functionName, returnAddress |-> returnAddress,
   variables |-> Absent]

\* StackFrame.addVariable
addVariable(frame, name, value, address, type) ==
  [frame EXCEPT !.variables =
     (name :> [value |-> value, address |-> address, type |-> type]) @@ @]

\* StackFrame.updateVariable
updateVariable(frame, name, value) ==
  IF name \in DOMAIN frame.variables
    THEN [frame EXCEPT !.variables[name].value = value]
    ELSE frame

\* new HeapBlock(address, size, content)
HeapBlock(address, size, content) ==
  [address |-> address, size |-> size, content |-> content, freed |-> FALSE]

\* object[key] = value
SetKey(object, key, value) == (key :> value) @@ object

\* a memory cell literal { value, name, type }
Cell(value, name, type) == [value |-> value, name |-> name, type |-> type]

\* a stack variable literal { name, value, address, type }
Variable(name, value, address, type) ==
  [name |-> name, value |-> value, address |-> address, type |-> type]

\* AppState.addError: the errors list with one more entry
addError(errors, message) == Append(errors, [message |-> message, type |-> "error"])

(***************************************************************************)
(* Interpreter (interpreter.js, kept in styles.css)                        *)
(***************************************************************************)

\* Interpreter.baseAddress = 0x1000
baseAddress == 4096

\* Interpreter.heapBase = 0x8000
heapBase == 32768

\* Number.prototype.toString(16)
RECURSIVE NumberToHex(_)
NumberToHex(n) ==
  IF n < 16 THEN CharAt("0123456789abcdef", n)
  ELSE NumberToHex(n \div 16) \o CharAt("0123456789abcdef", n % 16)

\* findFunctions of hasRecursion: the names of the function definitions
RECURSIVE findFunctions(_)
findFunctions(node) ==
  (IF node.type = "function_definition" /\ node.value # <<>> /\ node.value # <<"">>
     THEN {node.value[1]} ELSE {})
  \cup UNION {findFunctions(node.children[k]) : k \in 1..Len(node.children)}

\* findRecursiveCalls of hasRecursion: TRUE when the walk sets
\* hasRecursiveCall; currentFunction is <<>> for null
RECURSIVE findRecursiveCalls(_, _, _)
findRecursiveCalls(node, currentFunction, functionNames) ==
  LET current == IF node.type = "function_definition" /\ node.value # <<>> /\
                    node.value # <<"">>
                   THEN node.value ELSE currentFunction
  IN  \/ /\ node.type = "call_expression"
         /\ node.value # <<>> /\ node.value # <<"">>
         /\ node.value[1] \in functionNames
         /\ node.value = current
      \/ \E k \in 1..Len(node.children) :
           findRecursiveCalls(node.children[k], current, functionNames)

\* Interpreter.hasRecursion: ast is <<>> for null, <<root>> otherwise
hasRecursion(ast) ==
  IF ast = <<>> THEN FALSE
  ELSE findRecursiveCalls(ast[1], <<>>, findFunctions(ast[1]))

\* determineCodeType with the structures test ahead of the allocation test
determineCodeTypeStructuresFirst(appCode, ast) ==
  LET code == ToLowerCase(appCode)
  IN  IF Includes(code, "struct ") THEN "structures"
      ELSE IF Includes(code, "malloc(") \/ Includes(code, "free(") THEN "dynamic_allocation"
      ELSE IF Includes(code, "fopen(") \/ Includes(code, "fclose(") THEN "file_io"
      ELSE IF Includes(code, "switch(") \/ Includes(code, "case ") THEN "switch_case"
      ELSE IF Includes(code, "#define ") THEN "preprocessor"
      ELSE IF Includes(code, "<<") \/ Includes(code, ">>") \/ Includes(code, " & ")
        THEN "bitwise"
      ELSE IF hasRecursion(ast) THEN "recursion"
      ELSE IF Includes(code, "[") /\ Includes(code, "]") THEN "arrays"
      ELSE "basic"

\* Interpreter.determineCodeType
determineCodeType(appCode, ast) ==
  LET code == ToLowerCase(appCode)
  IN  IF Includes(code, "malloc(") \/ Includes(code, "free(") THEN "dynamic_allocation"
      ELSE IF Includes(code, "struct ") THEN "structures"
      ELSE IF Includes(code, "fopen(") \/ Includes(code, "fclose(") THEN "file_io"
      ELSE IF Includes(code, "switch(") \/ Includes(code, "case ") THEN "switch_case"
      ELSE IF Includes(code, "#define ") THEN "preprocessor"
      ELSE IF Includes(code, "<<") \/ Includes(code, ">>") \/ Includes(code, " & ")
        THEN "bitwise"
      ELSE IF hasRecursion(ast) THEN "recursion"
      ELSE IF Includes(code, "[") /\ Includes(code, "]") THEN "arrays"
      ELSE "basic"

\* Interpreter.findLastLine
findLastLine(tokens) ==
  IF Len(tokens) = 0 THEN 1
  ELSE CHOOSE l \in {tokens[k].line : k \in 1..Len(tokens)} :
         \A k \in 1..Len(tokens) : tokens[k].line <= l

\* what a generator leaves behind: the steps list it pushed onto, and the
\* fields of appState it wrote
Generated(steps, memory, stack, heap, consoleOutput) ==
  [steps |-> steps, memory |-> memory, stack |-> stack, heap |-> heap,
   consoleOutput |-> consoleOutput]

\* VariableChanges with the memory cell keyed above the heap base
VariableChangesAboveHeapBase(op, name, value, address, type) ==
  Changes((address + heapBase) :> Cell(value, name, type),
          [main |-> IF op = "add"
                      THEN [add |-> Variable(name, value, address, type)]
                      ELSE [update |-> Variable(name, value, address, type)]],
          Absent, "")

\* the changes of a declaration or assignment step of main: one memory cell
\* and the stack entry (op is "add" or "update") of the same variable
VariableChanges(op, name, value, address, type) ==
  Changes(address :> Cell(value, name, type),
          [main |-> IF op = "add"
                      THEN [add |-> Variable(name, value, address, type)]
                      ELSE [update |-> Variable(name, value, address, type)]],
          Absent, "")

\* Output with the text left out of the delta
OutputWithoutText(saida) == Changes(Absent, Absent, Absent, "")

\* the changes of a printf step
Output(saida) == Changes(Absent, Absent, Absent, saida)

\* the last step of every scripted generator
ReturnFromMain(line) ==
  ExecutionStep("return", line, "Return from main function",
                Changes(Absent, [main |-> [remove |-> TRUE]], Absent, ""))

\* Interpreter.generateStepsForVariablesAndPointers(steps): app holds the
\* appState fields memory, stack, heap, consoleOutput as they are on entry
generateStepsForVariablesAndPointers(steps, app) ==
  LET xAddress   == baseAddress
      yAddress   == xAddress + 4
      ptrAddress == yAddress + 4
      out1 == "x = 10, y = 20\n"
      out2 == "*ptr = 10\n"
      out3 == "After *ptr = 30, x = 30\n"
      out4 == "After ptr = &y and *ptr = 40, y = 40\n"
      pushed ==
        << ExecutionStep("declaration", 4, "Declaration of variable x with value 10",
                         VariableChanges("add", "x", 10, xAddress, "int")),
           ExecutionStep("declaration", 5, "Declaration of variable y with value 20",
                         VariableChanges("add", "y", 20, yAddress, "int")),
           ExecutionStep("declaration", 6, "Declaration of pointer ptr pointing to x",
                         VariableChanges("add", "ptr", xAddress, ptrAddress, "int*")),
           ExecutionStep("call", 8, "Printf function call showing x and y values",
                         Output(out1)),
           ExecutionStep("call", 9, "Printf function call showing value pointed by ptr",
                         Output(out2)),
           ExecutionStep("assignment", 11,
                         "Assignment of 30 to the value pointed by ptr (x)",
                         VariableChanges("update", "x", 30, xAddress, "int")),
           ExecutionStep("call", 12, "Printf function call showing x value after change",
                         Output(out3)),
           ExecutionStep("assignment", 14, "Assignment of y address to ptr",
                         VariableChanges("update", "ptr", yAddress, ptrAddress, "int*")),
           ExecutionStep("assignment", 15,
                         "Assignment of 40 to the value pointed by ptr (y)",
                         VariableChanges("update", "y", 40, yAddress, "int")),
           ExecutionStep("call", 16, "Printf function call showing y value after change",
                         Output(out4)),
           ReturnFromMain(18) >>
      \* mainFrame after its addVariable and updateVariable calls, in order
      frame1 == addVariable(StackFrame("main", 0), "x", 10, xAddress, "int")
      frame2 == addVariable(frame1, "y", 20, yAddress, "int")
      frame3 == addVariable(frame2, "ptr", xAddress, ptrAddress, "int*")
      frame4 == updateVariable(frame3, "x", 30)
      frame5 == updateVariable(frame4, "ptr", yAddress)
      mainFrame == updateVariable(frame5, "y", 40)
      \* appState.memory after its writes, in order
      memory1 == SetKey(app.memory, xAddress, Cell(10, "x", "int"))
      memory2 == SetKey(memory1, yAddress, Cell(20, "y", "int"))
      memory3 == SetKey(memory2, ptrAddress, Cell(xAddress, "ptr", "int*"))
      memory4 == [memory3 EXCEPT ![xAddress].value = 30]
      memory5 == [memory4 EXCEPT ![ptrAddress].value = yAddress]
      memory6 == [memory5 EXCEPT ![yAddress].value = 40]
  IN  Generated(steps \o pushed, memory6, Append(app.stack, mainFrame), app.heap,
                app.consoleOutput \o out1 \o out2 \o out3 \o out4)

\* Interpreter.generateStepsForArraysAndPointers(steps).  The accented
\* letter of "Endereco" is written without its cedilla.
generateStepsForArraysAndPointers(steps, app) ==
  LET arraySize     == 5
      intSize       == 4
      arrayAddress  == baseAddress
      ptrAddress    == arrayAddress + arraySize * intSize
      initialValues == [i \in 0..(arraySize - 1) |-> 10 * (i + 1)]
      Element(i)    == "numeros[" \o NumberToString(i) \o "]"
      memoryChanges ==
        [a \in {arrayAddress + i * intSize : i \in 0..(arraySize - 1)} |->
           LET i == (a - arrayAddress) \div intSize
           IN  Cell(initialValues[i], Element(i), "int")]
      third == arrayAddress + 2 * intSize
      out1  == "Endereco de numeros: 0x" \o NumberToHex(arrayAddress) \o "\n"
      out2  == "Valor de ptr: 0x" \o NumberToHex(arrayAddress) \o "\n"
      Line(i) == Element(i) \o " = " \o NumberToString(initialValues[i]) \o
                 ", *(ptr+" \o NumberToString(i) \o ") = " \o
                 NumberToString(initialValues[i]) \o "\n"
      out3  == "\nptr agora aponta para numeros[2]\n"
      out4  == "*ptr = " \o NumberToString(initialValues[2]) \o "\n"
      out5  == "ptr[-1] = " \o NumberToString(initialValues[1]) \o ", ptr[1] = " \o
               NumberToString(initialValues[3]) \o "\n"
      Iteration(i) ==
        << ExecutionStep("execution", 11,
                         "Loop iteration " \o NumberToString(i + 1) \o
                         " - accessing array elements", NoChanges),
           ExecutionStep("call", 13,
                         "Printf function call showing array element " \o
                         NumberToString(i), Output(Line(i))) >>
      pushed ==
        << ExecutionStep("declaration", 5,
             "Declaration and initialization of array numeros with 5 elements",
             Changes(memoryChanges,
                     [main |-> [add |-> Variable("numeros", arrayAddress,
                                                 arrayAddress, "int[5]")]],
                     Absent, "")),
           ExecutionStep("declaration", 6,
             "Declaration of pointer ptr initialized with numeros array address",
             VariableChanges("add", "ptr", arrayAddress, ptrAddress, "int*")),
           ExecutionStep("call", 8, "Printf function call showing the array address",
                         Output(out1)),
           ExecutionStep("call", 9, "Printf function call showing pointer ptr value",
                         Output(out2)) >>
        \o Iteration(0) \o Iteration(1) \o Iteration(2) \o Iteration(3) \o Iteration(4)
        \o
        << ExecutionStep("assignment", 16,
             "Repositioning ptr to the third element of array (numeros[2])",
             VariableChanges("update", "ptr", third, ptrAddress, "int*")),
           ExecutionStep("call", 17, "Printf function call with informative message",
                         Output(out3)),
           ExecutionStep("call", 18, "Printf function call showing value pointed by ptr",
                         Output(out4)),
           ExecutionStep("call", 19,
                         "Printf function call demonstrating pointer indexing",
                         Output(out5)),
           ReturnFromMain(21) >>
      frame1    == addVariable(StackFrame("main", 0), "numeros", arrayAddress,
                               arrayAddress, "int[5]")
      frame2    == addVariable(frame1, "ptr", arrayAddress, ptrAddress, "int*")
      mainFrame == updateVariable(frame2, "ptr", third)
      memory1   == memoryChanges @@ app.memory
      memory2   == SetKey(memory1, ptrAddress, Cell(arrayAddress, "ptr", "int*"))
      memory3   == [memory2 EXCEPT ![ptrAddress].value = third]
  IN  Generated(steps \o pushed, memory3, Append(app.stack, mainFrame), app.heap,
                app.consoleOutput \o out1 \o out2 \o Line(0) \o Line(1) \o Line(2) \o
                Line(3) \o Line(4) \o out3 \o out4 \o out5)

\* Interpreter.generateStepsForDynamicAllocation(steps)
generateStepsForDynamicAllocation(steps, app) ==
  LET ptrAddress       == baseAddress
      nAddress         == ptrAddress + 8
      allocSize        == 5 * 4
      heapBlockAddress == heapBase
      Name(i)          == "*(ptr+" \o NumberToString(i) \o ")"
      Initialize(i) ==
        ExecutionStep("assignment", 16,
                      "Initializing ptr[" \o NumberToString(i) \o "] with value " \o
                      NumberToString(i * 10),
                      Changes((heapBlockAddress + i * 4) :> Cell(i * 10, Name(i), "int"),
                              Absent, Absent, ""))
      Line(i) == "ptr[" \o NumberToString(i) \o "] = " \o NumberToString(i * 10) \o "\n"
      Show(i) ==
        ExecutionStep("call", 21,
                      "Printf function call showing ptr[" \o NumberToString(i) \o "]",
                      Output(Line(i)))
      Block(freed) ==
        heapBlockAddress :>
          [address |-> heapBlockAddress, size |-> allocSize, freed |-> freed]
      pushed ==
        << ExecutionStep("declaration", 5, "Declaration of pointer ptr (uninitialized)",
                         VariableChanges("add", "ptr", 0, ptrAddress, "int*")),
           ExecutionStep("declaration", 6, "Declaration of variable n with value 5",
                         VariableChanges("add", "n", 5, nAddress, "int")),
           ExecutionStep("call", 9,
             "Malloc function call to allocate 5 integers on heap",
             [VariableChanges("update", "ptr", heapBlockAddress, ptrAddress, "int*")
                EXCEPT !.heap = Block(FALSE)]),
           ExecutionStep("conditional", 11, "Checking if allocation was successful",
                         NoChanges),
           Initialize(0), Initialize(1), Initialize(2), Initialize(3), Initialize(4),
           Show(0), Show(1), Show(2), Show(3), Show(4),
           ExecutionStep("call", 25, "Free function call to release allocated memory",
                         Changes(Absent, Absent, Block(TRUE), "")),
           ExecutionStep("warning", 28,
                         "ptr is now a dangling pointer pointing to freed memory",
                         NoChanges),
           ReturnFromMain(30) >>
      frame1     == addVariable(StackFrame("main", 0), "ptr", 0, ptrAddress, "int*")
      frame2     == addVariable(frame1, "n", 5, nAddress, "int")
      mainFrame  == updateVariable(frame2, "ptr", heapBlockAddress)
      memory1    == SetKey(app.memory, ptrAddress, Cell(0, "ptr", "int*"))
      memory2    == SetKey(memory1, nAddress, Cell(5, "n", "int"))
      memory3    == [memory2 EXCEPT ![ptrAddress].value = heapBlockAddress]
      elements   == [a \in {heapBlockAddress + i * 4 : i \in 0..4} |->
                       LET i == (a - heapBlockAddress) \div 4
                       IN  Cell(i * 10, Name(i), "int")]
      memory4    == elements @@ memory3
      heapValues == [i \in 0..4 |-> i * 10]
      heap1      == SetKey(app.heap, heapBlockAddress,
                           HeapBlock(heapBlockAddress, allocSize, "uninitialized"))
      heap2      == [heap1 EXCEPT ![heapBlockAddress].content = heapValues]
      heap3      == [heap2 EXCEPT ![heapBlockAddress].freed = TRUE]
  IN  Generated(steps \o pushed, memory4, Append(app.stack, mainFrame), heap3,
                app.consoleOutput \o Line(0) \o Line(1) \o Line(2) \o Line(3) \o Line(4))

\* Interpreter.findFunctionCalls: the matching nodes in the order of the walk
RECURSIVE findFunctionCalls(_, _)
findFunctionCalls(rootNode, functionName) ==
  LET RECURSIVE FromChildren(_)
      FromChildren(k) ==
        IF k > Len(rootNode.children) THEN <<>>
        ELSE findFunctionCalls(rootNode.children[k], functionName) \o FromChildren(k + 1)
  IN  (IF rootNode.type = "call_expression" /\ rootNode.value = <<functionName>>
         THEN <<rootNode>> ELSE <<>>)
      \o FromChildren(1)

\* Interpreter.generateStepsBasedOnAST(steps); no node carries a line, so a
\* printf step takes the line index + 3
generateStepsBasedOnAST(steps, app, ast, tokens) ==
  LET mains == IF ast = <<>> THEN {}
               ELSE {k \in 1..Len(ast[1].children) :
                       /\ ast[1].children[k].type = "function_definition"
                       /\ ast[1].children[k].value = <<"main">>}
  IN  IF mains # {} THEN
        LET mainNode    == ast[1].children[CHOOSE k \in mains : \A j \in mains : k <= j]
            printfCalls == findFunctionCalls(mainNode, "printf")
            saida       == "Simulated output from printf call\n"
            RECURSIVE Repeat(_)
            Repeat(n)   == IF n = 0 THEN "" ELSE Repeat(n - 1) \o saida
        IN  Generated(
              steps
              \o << ExecutionStep("information", 2,
                                  "Found main() function - starting execution",
                                  NoChanges) >>
              \o [index \in 1..Len(printfCalls) |->
                    ExecutionStep("call", (index - 1) + 3, "Printf function call",
                                  Output(saida))]
              \o << ReturnFromMain(findLastLine(tokens) - 1) >>,
              app.memory, Append(app.stack, StackFrame("main", 0)), app.heap,
              app.consoleOutput \o Repeat(Len(printfCalls)))
      ELSE
        Generated(
          Append(steps, ExecutionStep("error", 1,
                                      "Could not find main function for execution",
                                      NoChanges)),
          app.memory, app.stack, app.heap, app.consoleOutput)

\* the generators the switch of generateExecutionSteps calls but the class
\* does not define, by code type
UndefinedGenerators ==
  [structures   |-> "generateStepsForStructures",
   recursion    |-> "generateStepsForRecursion",
   file_io      |-> "generateStepsForFileHandling",
   switch_case  |-> "generateStepsForSwitchCase",
   preprocessor |-> "generateStepsForPreprocessor",
   bitwise      |-> "generateStepsForBitwise"]

\* Interpreter.generateExecutionSteps: the list returned and the appState
\* fields written.  Calling a method the class does not define is a
\* TypeError, caught by the catch clause, which records the message.
generateExecutionSteps(appCode, tokens, ast, app, errors) ==
  LET codeType == determineCodeType(appCode, ast)
      first    == << ExecutionStep("initialization", 1, "Program start", NoChanges) >>
      Finish(g) ==
        [steps  |-> Append(g.steps,
                           ExecutionStep("finalization", findLastLine(tokens),
                                         "Program end", NoChanges)),
         memory |-> g.memory, stack |-> g.stack, heap |-> g.heap,
         consoleOutput |-> g.consoleOutput, errors |-> errors]
  IN  IF codeType = "basic"
        THEN Finish(generateStepsForVariablesAndPointers(first, app))
      ELSE IF codeType = "arrays"
        THEN Finish(generateStepsForArraysAndPointers(first, app))
      ELSE IF codeType = "dynamic_allocation"
        THEN Finish(generateStepsForDynamicAllocation(first, app))
      ELSE IF codeType \in DOMAIN UndefinedGenerators
        THEN [steps  |-> first,
              memory |-> app.memory, stack |-> app.stack, heap |-> app.heap,
              consoleOutput |-> app.consoleOutput,
              errors |-> addError(errors, "this." \o UndefinedGenerators[codeType] \o
                                          " is not a function")]
      ELSE Finish(generateStepsBasedOnAST(first, app, ast, tokens))

(***************************************************************************)
(* Application state (state.js) and handlers (event-handlers.js)           *)
(*                                                                         *)
(* The fields of AppState, the value of the code editor, the browser's     *)
(* table of live intervals, and the position of executeCode.  A handler    *)
(* runs to completion before the next event is taken, so every other       *)
(* handler waits for pc = "idle"; executeCode is cut at its stage          *)
(* boundaries so that the order of its stages can be observed.             *)
(***************************************************************************)

VARIABLES code, codeInput, tokens, ast, executionSteps, currentStep, memory,
          stack, heap, isRunning, executionSpeed, consoleOutput, intervalId,
          errors, codeType, intervals, pc

vars == <<code, codeInput, tokens, ast, executionSteps, currentStep, memory,
          stack, heap, isRunning, executionSpeed, consoleOutput, intervalId,
          errors, codeType, intervals, pc>>

\* the most interactive steps processUserInput is let push in one run
MaxInteractive == 1

\* the most operators in a generated expression statement
MaxOps == 2

\* the most fingerprint markers in a generated source
MaxMarkers == 2

\* appState.examples.basic, as loadExamples writes it
BasicExample ==
  "//Example: Variables and Pointers in C\n#include <stdio.h>\n\nint main() {\n" \o
  "    int x = 10;\n    int y = 20;\n    int *ptr = &x;\n\n" \o
  "    printf(\"x = %d, y = %d\\n\", x, y);\n    printf(\"*ptr = %d\\n\", *ptr);\n\n" \o
  "    *ptr = 30;\n    printf(\"After *ptr = 30, x = %d\\n\", x);\n\n" \o
  "    ptr = &y;\n    *ptr = 40;\n" \o
  "    printf(\"After ptr = &y and *ptr = 40, y = %d\\n\", y);\n\n    return 0;\n}"

\* the keys the example selector is given here: one that loadExamples
\* defines and one that it does not
ExampleKeys == {"basic", "unknown"}

\* appState.examples, restricted to ExampleKeys
Examples == [basic |-> BasicExample]

\* the programs typed into the editor
Programs ==
  { "",
    "int main(){ return 0; }",
    "int main(){ a[0] = 1; }",
    "int x; // malloc(",
    "struct s;",
    "int f(){ f(); }",
    "int main(){ int x = 10; }",
    "int f(int *p){}",
    "int f(x){}" }

\* the values the speed control is moved to
SpeedValues == {1, 10}

\* what eval(input) and Function(input)() do with the lines typed into the
\* input area: "value" when eval returns (result is String(result)),
\* "statement" when only Function(input)() succeeds, "error" when neither
InteractiveInputs ==
  { [input |-> "1+1",      outcome |-> "value",     result |-> "2"],
    [input |-> "return 1", outcome |-> "statement", result |-> ""],
    [input |-> "(",        outcome |-> "error",     result |-> ""] }

\* intervalId = null
NoInterval == 0

\* the state left by new AppState(), loadExamples and loadExample('basic'),
\* with the editor holding the text given
Booted(text) ==
  /\ code = BasicExample
  /\ codeInput = text
  /\ tokens = <<>>
  /\ ast = <<>>
  /\ executionSteps = <<>>
  /\ currentStep = 0
  /\ memory = Absent
  /\ stack = <<>>
  /\ heap = Absent
  /\ isRunning = FALSE
  /\ executionSpeed = 5
  /\ consoleOutput = ""
  /\ intervalId = NoInterval
  /\ errors = <<>>
  /\ codeType = ""
  /\ intervals = {}
  /\ pc = "idle"

Init == Booted(BasicExample)

\* clearInterval(id)
clearInterval(live, id) == {t \in live : t.id # id}

\* the id setInterval returns: one no live interval has
NewIntervalId(live) ==
  CHOOSE n \in 1..(Cardinality(live) + 1) : \A t \in live : t.id # n

\* toggleAutoExecution whose stopping branch sets intervalId to null without
\* clearInterval
toggleAutoExecutionKeepingInterval(running, id, live, speed) ==
  IF ~running THEN
    [isRunning  |-> TRUE,
     intervalId |-> NewIntervalId(live),
     intervals  |-> live \cup {[id |-> NewIntervalId(live), speed |-> speed]}]
  ELSE
    [isRunning  |-> FALSE,
     intervalId |-> NoInterval,
     intervals  |-> live]

\* AppState.toggleAutoExecution: the fields it writes
toggleAutoExecution(running, id, live, speed) ==
  IF ~running THEN
    [isRunning  |-> TRUE,
     intervalId |-> NewIntervalId(live),
     intervals  |-> live \cup {[id |-> NewIntervalId(live), speed |-> speed]}]
  ELSE
    [isRunning  |-> FALSE,
     intervalId |-> NoInterval,
     intervals  |-> IF id # NoInterval THEN clearInterval(live, id) ELSE live]

\* typing in the code editor
TypeCode ==
  /\ pc = "idle"
  /\ \E text \in Programs : codeInput' = text
  /\ UNCHANGED <<code, tokens, ast, executionSteps, currentStep, memory, stack,
                 heap, isRunning, executionSpeed, consoleOutput, intervalId,
                 errors, codeType, intervals, pc>>

\* the change handler of the example selector: AppState.loadExample
loadExample ==
  /\ pc = "idle"
  /\ \E key \in ExampleKeys :
       IF key \in DOMAIN Examples
         THEN code' = Examples[key] /\ codeInput' = Examples[key]
         ELSE UNCHANGED <<code, codeInput>>
  /\ UNCHANGED <<tokens, ast, executionSteps, currentStep, memory, stack, heap,
                 isRunning, executionSpeed, consoleOutput, intervalId, errors,
                 codeType, intervals, pc>>

\* executeCode_Reset with a resetExecutionState that keeps the errors of the
\* earlier runs
executeCode_ResetKeepingErrors ==
  /\ pc = "idle"
  /\ code' = codeInput
  /\ tokens' = <<>>
  /\ ast' = <<>>
  /\ executionSteps' = <<>>
  /\ currentStep' = 0
  /\ memory' = Absent
  /\ stack' = <<>>
  /\ heap' = Absent
  /\ isRunning' = FALSE
  /\ consoleOutput' = ""
  /\ IF intervalId # NoInterval
       THEN intervals' = clearInterval(intervals, intervalId) /\ intervalId' = NoInterval
       ELSE UNCHANGED <<intervals, intervalId>>
  /\ pc' = "tokenize"
  /\ UNCHANGED <<codeInput, executionSpeed, codeType, errors>>

\* executeCode, first stage: the editor's text becomes appState.code, then
\* AppState.resetExecutionState
executeCode_Reset ==
  /\ pc = "idle"
  /\ code' = codeInput
  /\ tokens' = <<>>
  /\ ast' = <<>>
  /\ executionSteps' = <<>>
  /\ currentStep' = 0
  /\ memory' = Absent
  /\ stack' = <<>>
  /\ heap' = Absent
  /\ isRunning' = FALSE
  /\ consoleOutput' = ""
  /\ errors' = <<>>
  /\ IF intervalId # NoInterval
       THEN intervals' = clearInterval(intervals, intervalId) /\ intervalId' = NoInterval
       ELSE UNCHANGED <<intervals, intervalId>>
  /\ pc' = "tokenize"
  /\ UNCHANGED <<codeInput, executionSpeed, codeType>>

\* executeCode, second stage: lexer.tokenize() and updateState({ tokens })
executeCode_Tokenize ==
  /\ pc = "tokenize"
  /\ tokens' = tokenize(code)
  /\ pc' = "parse"
  /\ UNCHANGED <<code, codeInput, ast, executionSteps, currentStep, memory, stack,
                 heap, isRunning, executionSpeed, consoleOutput, intervalId,
                 errors, codeType, intervals>>

\* executeCode_Parse without the jump to the catch clause: a parse that
\* throws is followed by the generator all the same
executeCode_ParseThenGenerate ==
  /\ pc = "parse"
  /\ LET parsed == parse(tokens)
     IN  /\ ast' = IF parsed.st = "ok" THEN <<parsed.node>> ELSE ast
         /\ pc' = IF parsed.st = "hang" THEN "hung" ELSE "generate"
  /\ UNCHANGED <<code, codeInput, tokens, executionSteps, currentStep, memory,
                 stack, heap, isRunning, executionSpeed, consoleOutput,
                 intervalId, errors, codeType, intervals>>

\* executeCode, third stage: parser.parse().  When it returns,
\* updateState({ ast }); when it throws, the catch clause calls showError,
\* which writes no field, and the handler ends; when it loops, the handler
\* never returns and no later event is taken.
executeCode_Parse ==
  /\ pc = "parse"
  /\ LET parsed == parse(tokens)
     IN  /\ ast' = IF parsed.st = "ok" THEN <<parsed.node>> ELSE ast
         /\ pc' = IF parsed.st = "ok" THEN "generate"
                  ELSE IF parsed.st = "error" THEN "idle"
                  ELSE "hung"
  /\ UNCHANGED <<code, codeInput, tokens, executionSteps, currentStep, memory,
                 stack, heap, isRunning, executionSpeed, consoleOutput,
                 intervalId, errors, codeType, intervals>>

\* executeCode, fourth stage: interpreter.generateExecutionSteps() and
\* updateState({ executionSteps })
executeCode_Generate ==
  /\ pc = "generate"
  /\ LET app == [memory |-> memory, stack |-> stack, heap |-> heap,
                 consoleOutput |-> consoleOutput]
         generated == generateExecutionSteps(code, tokens, ast, app, errors)
     IN  /\ executionSteps' = generated.steps
         /\ memory' = generated.memory
         /\ stack' = generated.stack
         /\ heap' = generated.heap
         /\ consoleOutput' = generated.consoleOutput
         /\ errors' = generated.errors
  /\ codeType' = determineCodeType(code, ast)
  /\ pc' = "show"
  /\ UNCHANGED <<code, codeInput, tokens, ast, currentStep, isRunning,
                 executionSpeed, intervalId, intervals>>

\* goToStep with the upper bound of its guard off by one
goToStepThroughLength(stepIndex) ==
  /\ stepIndex >= 0 /\ stepIndex <= Len(executionSteps)
  /\ currentStep' = stepIndex

\* AppState.goToStep: the guard and the write
goToStep(stepIndex) ==
  /\ stepIndex >= 0 /\ stepIndex < Len(executionSteps)
  /\ currentStep' = stepIndex

\* executeCode, last stage: updateControls and goToFirstStep
executeCode_Show ==
  /\ pc = "show"
  /\ IF Len(executionSteps) > 0 THEN goToStep(0) ELSE UNCHANGED currentStep
  /\ pc' = "idle"
  /\ UNCHANGED <<code, codeInput, tokens, ast, executionSteps, memory, stack,
                 heap, isRunning, executionSpeed, consoleOutput, intervalId,
                 errors, codeType, intervals>>

\* what the navigation handlers leave alone
NavigationUnchanged ==
  UNCHANGED <<code, codeInput, tokens, ast, executionSteps, memory, stack, heap,
              isRunning, executionSpeed, consoleOutput, intervalId, errors,
              codeType, intervals, pc>>

\* the click handler of the first button
goToFirstStep == pc = "idle" /\ goToStep(0) /\ NavigationUnchanged

\* the click handler of the previous button
goToPreviousStep == pc = "idle" /\ goToStep(currentStep - 1) /\ NavigationUnchanged

\* the click handler of the next button
goToNextStep == pc = "idle" /\ goToStep(currentStep + 1) /\ NavigationUnchanged

\* the click handler of the last button
goToLastStep ==
  pc = "idle" /\ goToStep(Len(executionSteps) - 1) /\ NavigationUnchanged

\* the click handler of the play button, toggleAutoExecution(appState)
toggleAutoExecutionHandler ==
  /\ pc = "idle"
  /\ LET t == toggleAutoExecution(isRunning, intervalId, intervals, executionSpeed)
     IN  /\ isRunning' = t.isRunning
         /\ intervalId' = t.intervalId
         /\ intervals' = t.intervals
  /\ UNCHANGED <<code, codeInput, tokens, ast, executionSteps, currentStep, memory,
                 stack, heap, executionSpeed, consoleOutput, errors, codeType, pc>>

\* the interval callback without its else branch: at the end of the list it
\* does nothing
IntervalCallbackWithoutStop ==
  /\ pc = "idle"
  /\ intervals # {}
  /\ IF currentStep < Len(executionSteps) - 1 THEN goToStep(currentStep + 1)
     ELSE UNCHANGED currentStep
  /\ UNCHANGED <<code, codeInput, tokens, ast, executionSteps, memory, stack, heap,
                 isRunning, intervalId, intervals, executionSpeed, consoleOutput,
                 errors, codeType, pc>>

\* the callback given to setInterval by AppState.toggleAutoExecution, run
\* for a live interval
IntervalCallback ==
  /\ pc = "idle"
  /\ intervals # {}
  /\ IF currentStep < Len(executionSteps) - 1 THEN
       /\ goToStep(currentStep + 1)
       /\ UNCHANGED <<isRunning, intervalId, intervals>>
     ELSE
       LET t == toggleAutoExecution(isRunning, intervalId, intervals, executionSpeed)
       IN  /\ isRunning' = t.isRunning
           /\ intervalId' = t.intervalId
           /\ intervals' = t.intervals
           /\ UNCHANGED currentStep
  /\ UNCHANGED <<code, codeInput, tokens, ast, executionSteps, memory, stack, heap,
                 executionSpeed, consoleOutput, errors, codeType, pc>>

\* updateExecutionSpeed without its clearInterval: the interval is replaced
\* through toggleAutoExecution alone, called as if auto-execution were off
updateExecutionSpeedWithoutClear ==
  /\ pc = "idle"
  /\ \E speed \in SpeedValues :
       /\ executionSpeed' = speed
       /\ IF isRunning /\ intervalId # NoInterval THEN
            LET t == toggleAutoExecution(FALSE, intervalId, intervals, speed)
            IN  /\ isRunning' = t.isRunning
                /\ intervalId' = t.intervalId
                /\ intervals' = t.intervals
          ELSE UNCHANGED <<isRunning, intervalId, intervals>>
  /\ UNCHANGED <<code, codeInput, tokens, ast, executionSteps, currentStep, memory,
                 stack, heap, consoleOutput, errors, codeType, pc>>

\* the input handler of the speed control: AppState.updateExecutionSpeed.
\* With auto-execution active it clears the interval and then calls
\* toggleAutoExecution while isRunning is still true.
updateExecutionSpeed ==
  /\ pc = "idle"
  /\ \E speed \in SpeedValues :
       /\ executionSpeed' = speed
       /\ IF isRunning /\ intervalId # NoInterval THEN
            LET t == toggleAutoExecution(isRunning, intervalId,
                                         clearInterval(intervals, intervalId), speed)
            IN  /\ isRunning' = t.isRunning
                /\ intervalId' = t.intervalId
                /\ intervals' = t.intervals
          ELSE UNCHANGED <<isRunning, intervalId, intervals>>
  /\ UNCHANGED <<code, codeInput, tokens, ast, executionSteps, currentStep, memory,
                 stack, heap, consoleOutput, errors, codeType, pc>>

\* the number of steps processUserInput has pushed
InteractiveSteps ==
  Cardinality({k \in 1..Len(executionSteps) : executionSteps[k].type = "interactive"})

\* the keypress handler of the input area: processUserInput(appState, input)
processUserInput ==
  /\ pc = "idle"
  /\ InteractiveSteps < MaxInteractive
  /\ \E typed \in InteractiveInputs :
       executionSteps' =
         IF typed.outcome = "value" THEN
           Append(executionSteps,
                  ExecutionStep("interactive", 0, "Result: " \o typed.result,
                                Output(typed.result \o "\n")))
         ELSE IF typed.outcome = "statement" THEN
           Append(executionSteps,
                  ExecutionStep("interactive", 0, "Statement executed successfully",
                                NoChanges))
         ELSE executionSteps
  /\ UNCHANGED <<code, codeInput, tokens, ast, currentStep, memory, stack, heap,
                 isRunning, executionSpeed, consoleOutput, intervalId, errors,
                 codeType, intervals, pc>>

\* executeCode(appState), the click handler of the run button, stage by stage
executeCode ==
  \/ executeCode_Reset
  \/ executeCode_Tokenize
  \/ executeCode_Parse
  \/ executeCode_Generate
  \/ executeCode_Show

Next ==
  \/ TypeCode
  \/ loadExample
  \/ executeCode
  \/ goToFirstStep
  \/ goToPreviousStep
  \/ goToNextStep
  \/ goToLastStep
  \/ toggleAutoExecutionHandler
  \/ IntervalCallback
  \/ updateExecutionSpeed
  \/ processUserInput

Spec == Init /\ [][Next]_vars

(***************************************************************************)
(* Runs of executeCode over families of programs.  Each specification      *)
(* starts from the booted application with one program of its family in   *)
(* the editor and runs it.                                                 *)
(***************************************************************************)

\* a program whose main holds the statements given
InMain(statements) == "int main(){ " \o statements \o " }"

\* declarations, calls and directives
DeclarationSources ==
  { InMain("int x = 10;"),
    InMain("int *ptr = &x;"),
    InMain("int x = 10; int *ptr = &x;"),
    InMain("x = 10;"),
    "int x = 10;",
    "int x = 1, *p = &x;" }

CallSources ==
  { InMain("printf(\"hi\");"),
    InMain("printf(\"%d\", x);"),
    InMain("f(a);"),
    InMain("f();") }

DirectiveSources ==
  { "#include <stdio.h>\nint x;",
    "#include \"my.h\"\nint x;",
    "#define MAX 10\nint x;",
    "#include <stdio.h>\nint main(){ return 0; }",
    "int x;" }

\* the header clauses and body of a for statement, each clause present or
\* omitted
ForParts == {"", "i = 0"} \X {"", "i < n"} \X {"", "i = i + 1"} \X {"x = 1;", "{ }"}

ForSource(c) == InMain("for(" \o c[1] \o ";" \o c[2] \o ";" \o c[3] \o ") " \o c[4])

ForSources == {ForSource(c) : c \in ForParts}

\* the branches of an if statement, the else branch present or omitted
IfParts == {"x = 1;", "{ }", "{ x = 1; }"} \X {"", " else y = 2;", " else { }"}

IfSource(c) == InMain("if (a < b) " \o c[1] \o c[2])

IfSources == {IfSource(c) : c \in IfParts}

\* statements whose only category marker is a bitwise operator
BitwiseSources ==
  { InMain("x = ~a;"),
    InMain("x = a|b;"),
    InMain("x = a^b;"),
    InMain("x = a&b;"),
    InMain("x = a << 2;") }

StatementSources ==
  DeclarationSources \cup CallSources \cup DirectiveSources \cup ForSources \cup
  IfSources \cup BitwiseSources

InitStatements == \E text \in StatementSources : Booted(text)

SpecStatements == InitStatements /\ [][executeCode]_vars

\* one binary operator of each level of the expression grammar
FamilyOperators == {"=", "&&", "<", "+", "*"}

\* the k-th operand of a generated expression
OperandName(k) == CharAt("abcdefgh", k - 1)

\* the expression with the operators ops between its operands, the operand
\* at place minusAt (0 for none) negated
RECURSIVE ExpressionText(_, _, _)
ExpressionText(ops, minusAt, k) ==
  (IF minusAt = k THEN "-" ELSE "") \o OperandName(k) \o
  (IF k > Len(ops) THEN ""
   ELSE " " \o ops[k] \o " " \o ExpressionText(ops, minusAt, k + 1))

\* expression statements of up to MaxOps binary operators, and a few with
\* calls, subscripts and parentheses
ExpressionSources ==
  { InMain(ExpressionText(c[1], c[2], 1) \o ";") :
      c \in UNION { [1..n -> FamilyOperators] \X (0..(n + 1)) : n \in 0..MaxOps } }
  \cup
  { InMain("-f(a) * b;"), InMain("-a[0] * b;"), InMain("(a + b) * c;"),
    InMain("a * (b = c);"), InMain("a - b + c;"), InMain("a - b - c;"),
    InMain("a / b % c;"),
    InMain("a || b && c;"), InMain("a == b < c;"), InMain("!-a;"),
    InMain("a += b -= c;") }

InitExpressions == \E text \in ExpressionSources : Booted(text)

SpecExpressions == InitExpressions /\ [][executeCode]_vars

\* texts that carry the fingerprints determineCodeType looks for, and one
\* in capitals
Markers ==
  <<"malloc(", "free(", "struct ", "fopen(", "fclose(", "switch(", "case ",
    "#define ", "<<", ">>", " & ", "[0]", "MALLOC(">>

\* the markers picked, in the order of Markers, each after a blank
RECURSIVE MarkerText(_, _)
MarkerText(picked, k) ==
  IF k > Len(Markers) THEN ""
  ELSE (IF k \in picked THEN " " \o Markers[k] ELSE "") \o MarkerText(picked, k + 1)

\* a declaration, or a function that calls itself, followed by a comment
\* that holds up to MaxMarkers markers
FingerprintSources ==
  { c[1] \o " //" \o MarkerText(c[2], 1) :
      c \in {"int x;", "int f(){ f(); }"} \X
            {picked \in SUBSET (1..Len(Markers)) : Cardinality(picked) <= MaxMarkers} }

InitFingerprints == \E text \in FingerprintSources : Booted(text)

SpecFingerprints == InitFingerprints /\ [][executeCode]_vars


\* the operators of more than one character
MultiCharOperators ==
  {"<<=", ">>=", "<<", ">>", "<=", ">=", "==", "!=", "&&", "||", "++", "--",
   "+=", "-=", "*=", "/=", "%=", "&=", "|=", "^=", "->"}

\* a statement with the operator between two names
OperatorSource(operator) == InMain("a " \o operator \o " b;")

\* sources for the tokenizer: every operator of more than one character,
\* and directive lines alone, with trailing text, inside a block comment
\* and inside a string literal
TokenSources ==
  { OperatorSource(operator) : operator \in MultiCharOperators }
  \cup
  { "int x;",
    "int x; // note\nint y;",
    "int x; /* a\nb */ int y;",
    "#include <stdio.h>\nint x;",
    "#define MAX 10\nint x;",
    "#define MAX 10 + 2\nint x;",
    "#ifdef DEBUG\nint x;",
    "/*\n#define X 1\n*/ int x;",
    "char *s = \"a\n#define X 1\n\";",
    "int x = 1 @ 2;" }

InitTokens == \E text \in TokenSources : Booted(text)

SpecTokens == InitTokens /\ [][executeCode]_vars

(***************************************************************************)
(* Auto-execution left to itself: a program of the editor is run, the play *)
(* button starts and stops auto-execution, and the browser keeps calling   *)
(* the callback of a live interval: while an interval is live and no       *)
(* handler is running, setInterval fires it again after each period.       *)
(***************************************************************************)

InitAutoExecution == \E text \in Programs : Booted(text)

NextAutoExecution ==
  \/ executeCode
  \/ toggleAutoExecutionHandler
  \/ IntervalCallback

SpecAutoExecution ==
  InitAutoExecution /\ [][NextAutoExecution]_vars /\ WF_vars(IntervalCallback)

(***************************************************************************)
(* Properties                                                              *)
(***************************************************************************)

\* the parse stage of a run on the present tokens has ended
ParseEnded == tokens # <<>> /\ pc \in {"generate", "show", "idle", "hung"}

\* the statements of the body of the first function of the tree
MainStatements == ast[1].children[1].children[1].children

\* every node of a tree
RECURSIVE AllNodes(_)
AllNodes(node) ==
  {node} \cup UNION { AllNodes(node.children[k]) : k \in DOMAIN node.children }

\* C1: whatever the source text and its classification, the list that
\* generateExecutionSteps returns has an initialization step first and a
\* finalization step last.
C1_StepsWrapped ==
  pc = "show" =>
    /\ Len(executionSteps) >= 1
    /\ executionSteps[1].type = "initialization"
    /\ executionSteps[Len(executionSteps)].type = "finalization"

\* C2: when step synthesis fails inside generateExecutionSteps, the list it
\* returns holds exactly one step of kind error and exactly one entry has
\* been appended to appState.errors.
C2_FailureReported ==
  (pc = "show" /\ errors # <<>>) =>
    /\ Cardinality({k \in DOMAIN executionSteps : executionSteps[k].type = "error"}) = 1
    /\ Len(errors) = 1

\* C3: the stages of executeCode happen in the order reset, tokenize, parse,
\* generate; when parse throws, the run ends without the generator, with
\* executionSteps empty, ast null and tokens holding the new token list.
C3_StageOrder ==
  [][ /\ (pc' = "tokenize" => pc = "idle" /\ tokens' = <<>> /\ ast' = <<>> /\
                              executionSteps' = <<>>)
      /\ (pc' = "parse" => pc = "tokenize" /\ tokens' = tokenize(code))
      /\ (pc' = "generate" => pc = "parse" /\ parse(tokens).st = "ok")
      /\ (pc' = "show" => pc = "generate")
      /\ (pc = "parse" /\ parse(tokens).st = "error" =>
            /\ pc' = "idle"
            /\ executionSteps' = <<>>
            /\ ast' = <<>>
            /\ tokens' = tokenize(code')) ]_vars

\* a run whose parse threw has ended
C3_AbortedRun ==
  /\ pc = "idle"
  /\ tokens # <<>>
  /\ tokens = tokenize(code)
  /\ parse(tokens).st = "error"
  /\ ast = <<>>
  /\ executionSteps = <<>>

\* C4: parse terminates on every token list, with a tree or with an error.
C4_ParseTerminates ==
  pc = "parse" => parse(tokens).st \in {"ok", "error"}

\* C5: a statement of a block that starts with a type keyword is parsed as
\* one variable_declaration node carrying the type, with one variable child
\* per declarator, and the parse goes on after its semicolon.
C5_DeclarationInBlock ==
  (ParseEnded /\ code \in {InMain("int x = 10;"), InMain("int *ptr = &x;")}) =>
    /\ ast # <<>>
    /\ Len(MainStatements) = 1
    /\ MainStatements[1].type = "variable_declaration"
    /\ Len(MainStatements[1].children) = 1
    /\ MainStatements[1].children[1].type = "variable"

\* C6: printf(args); in a function body, tokenized and parsed, gives a
\* call_expression node whose value is the callee name, with one child per
\* argument, which the search for calls of printf finds.
C6_PrintfCall ==
  (ParseEnded /\ code \in {InMain("printf(\"hi\");"), InMain("printf(\"%d\", x);")}) =>
    /\ ast # <<>>
    /\ Len(findFunctionCalls(ast[1], "printf")) = 1
    /\ Len(findFunctionCalls(ast[1], "printf")[1].children) =
         (IF code = InMain("printf(\"hi\");") THEN 1 ELSE 2)

\* C7: the tokens of a source that starts with an #include or #define line
\* followed by valid declarations are accepted by parse: the directive is a
\* preprocessor_directive child of the root and the declarations follow.
C7_DirectiveAccepted ==
  (ParseEnded /\ code \in {"#include <stdio.h>\nint x;", "#include \"my.h\"\nint x;",
                           "#define MAX 10\nint x;"}) =>
    /\ ast # <<>>
    /\ Len(ast[1].children) = 2
    /\ ast[1].children[1].type = "preprocessor_directive"

\* C8: every for_statement node of a parsed tree has exactly the four
\* children init, condition, increment, body, an omitted clause being a
\* node of kind empty; every if_statement node has two or three children,
\* the third being the else branch.
C8_FixedArity ==
  /\ ParseEnded /\ code \in ForSources \cup IfSources => ast # <<>>
  /\ ast # <<>> =>
       \A n \in AllNodes(ast[1]) :
         /\ n.type = "for_statement" => Len(n.children) = 4
         /\ n.type = "if_statement" => Len(n.children) \in {2, 3}
  /\ \A c \in ForParts :
       (ast # <<>> /\ code = ForSource(c)) =>
         /\ Len(MainStatements) = 1
         /\ MainStatements[1].type = "for_statement"
         /\ \A k \in 1..3 : (MainStatements[1].children[k].type = "empty") <=> (c[k] = "")
         /\ MainStatements[1].children[1].type =
              (IF c[1] = "" THEN "empty" ELSE "assignment_expression")
         /\ MainStatements[1].children[2].type =
              (IF c[2] = "" THEN "empty" ELSE "relational_expression")
         /\ MainStatements[1].children[3].type =
              (IF c[3] = "" THEN "empty" ELSE "assignment_expression")
         /\ MainStatements[1].children[4].type =
              (IF c[4] = "{ }" THEN "compound_statement" ELSE "assignment_expression")
  /\ \A c \in IfParts :
       (ast # <<>> /\ code = IfSource(c)) =>
         /\ Len(MainStatements) = 1
         /\ MainStatements[1].type = "if_statement"
         /\ Len(MainStatements[1].children) = (IF c[2] = "" THEN 2 ELSE 3)
         /\ MainStatements[1].children[1].type = "relational_expression"

\* a for statement with every clause omitted has been parsed
C8_ForWithoutClauses ==
  /\ ast # <<>>
  /\ code = ForSource(<<"", "", "", "{ }">>)
  /\ MainStatements[1].type = "for_statement"
  /\ pc = "show"

\* the level of a binary operator in the order assignment, logical,
\* relational, additive, multiplicative
OperatorLevel(operator) ==
  IF operator \in ParserAssignmentOperators THEN 1
  ELSE IF operator \in {"&&", "||"} THEN 2
  ELSE IF operator \in {"==", "!=", "<", ">", "<=", ">="} THEN 3
  ELSE IF operator \in {"+", "-"} THEN 4
  ELSE 5

\* the node type of a level
LevelType ==
  <<"assignment_expression", "logical_expression", "relational_expression",
    "additive_expression", "multiplicative_expression">>

Identifier(name) == ASTNode("identifier", <<name>>)

Unary(operator, operand) == addChild(ASTNode("unary_expression", <<operator>>), operand)

\* the places of the binary operators of a sequence of identifiers and
\* operators: the operators that follow an operand
BinaryPlaces(ts) ==
  {k \in 2..Len(ts) : ts[k].type = "operator" /\ ts[k - 1].type = "identifier"}

\* the place where the claimed order splits the sequence: an operator of
\* the lowest level present, the first one for assignment and the last one
\* for the other levels
SplitPlace(ts) ==
  LET places == BinaryPlaces(ts)
      lowest == CHOOSE l \in 1..5 :
                  /\ \E k \in places : OperatorLevel(ts[k].value) = l
                  /\ \A k \in places : OperatorLevel(ts[k].value) >= l
      atLowest == {k \in places : OperatorLevel(ts[k].value) = lowest}
  IN  IF lowest = 1
        THEN CHOOSE k \in atLowest : \A j \in atLowest : k <= j
        ELSE CHOOSE k \in atLowest : \A j \in atLowest : k >= j

\* the tree that the claimed order gives to a sequence of identifiers and
\* operators
RECURSIVE Grouped(_)
Grouped(ts) ==
  IF BinaryPlaces(ts) = {}
    THEN IF ts[1].type = "operator"
           THEN Unary(ts[1].value, Grouped(Tail(ts)))
           ELSE Identifier(ts[1].value)
    ELSE Let(SplitPlace(ts), LAMBDA k :
           Binary(LevelType[OperatorLevel(ts[k].value)], ts[k].value,
                  Grouped(SubSeq(ts, 1, k - 1)),
                  Grouped(SubSeq(ts, k + 1, Len(ts)))))

\* the trees of the expressions with calls, subscripts and parentheses
ExpectedTrees ==
  { <<InMain("-f(a) * b;"),
      Binary("multiplicative_expression", "*",
             Unary("-", addChild(ASTNode("call_expression", <<"f">>), Identifier("a"))),
             Identifier("b"))>>,
    <<InMain("-a[0] * b;"),
      Binary("multiplicative_expression", "*",
             Unary("-", addChild(ASTNode("array_access", <<"a">>),
                                 ASTNode("literal", <<"0">>))),
             Identifier("b"))>>,
    <<InMain("(a + b) * c;"),
      Binary("multiplicative_expression", "*",
             Binary("additive_expression", "+", Identifier("a"), Identifier("b")),
             Identifier("c"))>>,
    <<InMain("a * (b = c);"),
      Binary("multiplicative_expression", "*", Identifier("a"),
             Binary("assignment_expression", "=", Identifier("b"), Identifier("c")))>> }

\* the tokens of the expression statement of InMain
ExpressionTokens == SubSeq(tokens, 6, Len(tokens) - 2)

\* C9: expressions are grouped by the precedence order assignment < logical
\* < relational < additive < multiplicative < unary < primary; operators of
\* one binary level group to the left and assignment groups to the right.
C9_Precedence ==
  ParseEnded =>
    /\ ast # <<>>
    /\ Len(MainStatements) = 1
    /\ IF \E e \in ExpectedTrees : e[1] = code
         THEN \E e \in ExpectedTrees : e[1] = code /\ e[2] = MainStatements[1]
         ELSE MainStatements[1] = Grouped(ExpressionTokens)
    /\ code = InMain("a - b - c;") =>
         MainStatements[1] =
           Binary("additive_expression", "-",
                  Binary("additive_expression", "-", Identifier("a"), Identifier("b")),
                  Identifier("c"))
    /\ code = InMain("a = b = c;") =>
         MainStatements[1] =
           Binary("assignment_expression", "=", Identifier("a"),
                  Binary("assignment_expression", "=", Identifier("b"), Identifier("c")))

\* an expression with an assignment, a product and a negation has been parsed
C9_MixedLevels ==
  /\ ParseEnded
  /\ ast # <<>>
  /\ code = InMain("a = b * -c;")
  /\ MainStatements[1].type = "assignment_expression"

\* the categories in the order of the classification
Categories ==
  <<"dynamic_allocation", "structures", "file_io", "switch_case", "preprocessor",
    "bitwise", "recursion", "arrays", "basic">>

\* the fingerprint of a category in a lower-cased text and its tree
Fingerprint(category, text, tree) ==
  CASE category = "dynamic_allocation" -> Includes(text, "malloc(") \/ Includes(text, "free(")
    [] category = "structures"  -> Includes(text, "struct ")
    [] category = "file_io"     -> Includes(text, "fopen(") \/ Includes(text, "fclose(")
    [] category = "switch_case" -> Includes(text, "switch(") \/ Includes(text, "case ")
    [] category = "preprocessor" -> Includes(text, "#define ")
    [] category = "bitwise"     ->
         Includes(text, "<<") \/ Includes(text, ">>") \/ Includes(text, " & ")
    [] category = "recursion"   -> hasRecursion(tree)
    [] category = "arrays"      -> Includes(text, "[") /\ Includes(text, "]")
    [] category = "basic"       -> TRUE

\* the first category of the order whose fingerprint matches
FirstMatch(text, tree) ==
  Categories[CHOOSE k \in DOMAIN Categories :
               /\ Fingerprint(Categories[k], text, tree)
               /\ \A j \in 1..(k - 1) : ~Fingerprint(Categories[j], text, tree)]

\* C10: the classification returns the first category, in the order
\* dynamic_allocation, structures, file_io, switch_case, preprocessor,
\* bitwise, recursion, arrays, basic, whose fingerprint matches; a source
\* with both malloc( and struct is dynamic_allocation; classifying the same
\* source again gives the same category.
C10_FirstMatch ==
  [][ pc = "generate" =>
        /\ codeType' = FirstMatch(ToLowerCase(code), ast)
        /\ (Includes(code, "malloc(") /\ Includes(code, "struct ") =>
              codeType' = "dynamic_allocation")
        /\ (codeType # "" => codeType' = codeType) ]_vars

\* a source with both malloc( and struct has been classified
C10_AllocationAndStructure ==
  /\ pc = "show"
  /\ Includes(code, "malloc(")
  /\ Includes(code, "struct ")
  /\ codeType = "dynamic_allocation"

\* the kinds of the steps of the trace, in order
StepTypes == [k \in DOMAIN executionSteps |-> executionSteps[k].type]

\* the definitions of main at the root of the tree
MainDefinitions ==
  {k \in DOMAIN ast[1].children :
     /\ ast[1].children[k].type = "function_definition"
     /\ ast[1].children[k].value = <<"main">>}

\* the trace of the generic fallback for the tree: an error step when the
\* tree has no main; otherwise an information step, a call step for each
\* call of printf under main, and a return step
FallbackTypes ==
  IF MainDefinitions = {}
    THEN <<"initialization", "error", "finalization">>
    ELSE <<"initialization", "information">>
         \o [k \in 1..Len(findFunctionCalls(
                            ast[1].children[CHOOSE k \in MainDefinitions : TRUE],
                            "printf")) |-> "call"]
         \o <<"return", "finalization">>

\* C11: a source that matches no fingerprint of a category gets the trace
\* of the generic fallback.
C11_GenericFallback ==
  (pc = "show" /\ FirstMatch(ToLowerCase(code), ast) = "basic") =>
    StepTypes = FallbackTypes

\* the offset in the code of the first character of a token, from its line
\* and column
TokenStart(t) ==
  (IF t.line = 1 THEN 0 ELSE NewlinePositions(code)[t.line - 1] + 1) + t.column - 1

\* the offset just after the last character of a token
TokenEnd(t) == TokenStart(t) + Len(t.value)

\* C12: the token list is sorted ascending by (line, column) and no two
\* tokens cover the same characters of the source, also when a line that
\* begins with # lies inside a block comment or a string literal.
C12_SortedDisjoint ==
  pc = "parse" =>
    \A i, j \in DOMAIN tokens :
      i < j =>
        /\ tokens[i].line < tokens[j].line \/
           (tokens[i].line = tokens[j].line /\ tokens[i].column <= tokens[j].column)
        /\ TokenEnd(tokens[i]) <= TokenStart(tokens[j]) \/
           TokenEnd(tokens[j]) <= TokenStart(tokens[i])

\* the texts of the tokens, concatenated in list order
RECURSIVE TokenTexts(_, _)
TokenTexts(ts, k) ==
  IF k > Len(ts) THEN "" ELSE ts[k].value \o TokenTexts(ts, k + 1)

\* the characters of the text from offset p on that are neither whitespace
\* nor inside a comment
RECURSIVE Significant(_, _)
Significant(text, p) ==
  IF p >= Len(text) THEN ""
  ELSE IF StartsWithAt(text, p, "//") THEN
    (IF IndexOf(text, "\n", p) = -1 THEN "" ELSE Significant(text, IndexOf(text, "\n", p)))
  ELSE IF StartsWithAt(text, p, "/*") /\ IndexOf(text, "*/", p + 2) # -1 THEN
    Significant(text, IndexOf(text, "*/", p + 2) + 2)
  ELSE IF CharAt(text, p) \in WhitespaceChars THEN Significant(text, p + 1)
  ELSE CharAt(text, p) \o Significant(text, p + 1)

\* C13: the texts of the tokens, concatenated in list order, are exactly
\* the characters of the input that are neither whitespace nor inside a
\* comment, in their order, the text of directive lines included.
C13_TextPreserved ==
  pc = "parse" => TokenTexts(tokens, 1) = Significant(code, 0)

\* C14: every operator of more than one character in the source is one
\* token with that text, never a shorter prefix and a remainder.
C14_GreedyOperators ==
  \A operator \in MultiCharOperators :
    (pc = "parse" /\ code = OperatorSource(operator)) =>
      /\ Len(tokens) = 10
      /\ tokens[7].value = operator

\* the addresses keyed in the memory delta and in the heap delta of step k
MemoryKeys(k) == DOMAIN executionSteps[k].changes.memory

HeapKeys(k) == DOMAIN executionSteps[k].changes.heap

\* the address lies in a block that a heap delta of the trace describes
InHeapBlock(a) ==
  \E k \in DOMAIN executionSteps :
    \E b \in HeapKeys(k) :
      b <= a /\ a < b + executionSteps[k].changes.heap[b].size

\* the address is keyed in a delta of a step before step k
KeyedBefore(a, k) == \E j \in 1..(k - 1) : a \in MemoryKeys(j) \cup HeapKeys(j)

\* C15: in every step of a trace the addresses keyed in the heap delta are
\* at or above the heap base, the addresses keyed in the memory delta for
\* variables that are no heap elements lie from the stack base up to the
\* heap base, and on either side of the heap base an address that a step
\* brings in is above every address brought in before it.
C15_AddressRegions ==
  \A k \in DOMAIN executionSteps :
    /\ \A a \in HeapKeys(k) : a >= heapBase
    /\ \A a \in MemoryKeys(k) :
         IF InHeapBlock(a) THEN a >= heapBase
         ELSE baseAddress <= a /\ a < heapBase
    /\ \A a \in MemoryKeys(k) \cup HeapKeys(k) :
         ~KeyedBefore(a, k) =>
           \A j \in 1..(k - 1) :
             \A b \in MemoryKeys(j) \cup HeapKeys(j) :
               (b >= heapBase) = (a >= heapBase) => b < a

\* a trace with stack variables, a heap block and heap elements is shown
C15_StackAndHeapTrace ==
  /\ pc = "show"
  /\ \E k \in DOMAIN executionSteps : HeapKeys(k) # {}
  /\ \E k \in DOMAIN executionSteps : \E a \in MemoryKeys(k) : InHeapBlock(a)
  /\ \E k \in DOMAIN executionSteps : \E a \in MemoryKeys(k) : a < heapBase

\* the steps whose heap delta holds the address with the given freed flag
HeapSteps(a, freed) ==
  {k \in DOMAIN executionSteps :
     a \in HeapKeys(k) /\ executionSteps[k].changes.heap[a].freed = freed}

\* the addresses keyed in the heap deltas of the trace
HeapAddresses == UNION {HeapKeys(k) : k \in DOMAIN executionSteps}

\* in the trace, no heap delta with freed false comes after one with freed
\* true for the same address
FreedStaysInTrace ==
  \A a \in HeapAddresses :
    \A i \in HeapSteps(a, TRUE) : \A j \in HeapSteps(a, FALSE) : j < i

\* C16: once a heap delta of a trace marks an address freed, no later step
\* of the trace has a heap delta for it with freed false; the HeapBlock of
\* appState.heap for it is there after the generation, freed, and between
\* two resets no block is removed and no freed flag goes back to false.
C16_FreedIsFinal ==
  [][ /\ FreedStaysInTrace'
      /\ pc = "generate" =>
           \A a \in HeapAddresses' :
             /\ a \in DOMAIN heap'
             /\ HeapSteps(a, TRUE)' # {} => heap'[a].freed
      /\ pc' # "tokenize" =>
           \A a \in DOMAIN heap :
             /\ a \in DOMAIN heap'
             /\ heap[a].freed => heap'[a].freed ]_vars

\* a trace that allocates a block and frees it later is shown, and the
\* block is freed in appState.heap
C16_AllocatedThenFreed ==
  /\ pc = "show"
  /\ \E a \in HeapAddresses :
       /\ HeapSteps(a, FALSE) # {}
       /\ HeapSteps(a, TRUE) # {}
       /\ a \in DOMAIN heap
       /\ heap[a].freed

\* C17: the trace of a source classified dynamic_allocation has exactly one
\* step whose heap delta has freed false and exactly one whose heap delta
\* has freed true, for the same address, the first before the second; the
\* step right after the second is a warning step, and a return step comes
\* after it.
C17_AllocateFreeWarn ==
  (pc = "show" /\ codeType = "dynamic_allocation") =>
    /\ Cardinality(HeapAddresses) = 1
    /\ \A a \in HeapAddresses :
         /\ Cardinality(HeapSteps(a, FALSE)) = 1
         /\ Cardinality(HeapSteps(a, TRUE)) = 1
         /\ \A i \in HeapSteps(a, FALSE) : \A j \in HeapSteps(a, TRUE) :
              /\ i < j
              /\ j + 1 \in DOMAIN executionSteps
              /\ executionSteps[j + 1].type = "warning"
              /\ \E r \in DOMAIN executionSteps :
                   r > j + 1 /\ executionSteps[r].type = "return"

\* the trace of a source with malloc( and, after it, free( (both in a
\* comment, where the parser accepts them) that is classified
\* dynamic_allocation is shown, with its warning step
C17_FreeTrace ==
  /\ pc = "show"
  /\ codeType = "dynamic_allocation"
  /\ Includes(code, "malloc(")
  /\ IndexOf(code, "free(", 0) > IndexOf(code, "malloc(", 0)
  /\ \E k \in DOMAIN executionSteps : executionSteps[k].type = "warning"

\* C18: the source int x = 10; int *ptr = &x; inside main is classified
\* basic, and its trace has a declaration step whose memory delta holds a
\* cell named x with value 10 and a later declaration step for ptr whose
\* cell value is the address of the cell of x.
C18_BasicDeclarations ==
  (ParseEnded /\ pc = "idle" /\ code = InMain("int x = 10; int *ptr = &x;")) =>
    /\ codeType = "basic"
    /\ \E i, j \in DOMAIN executionSteps :
         /\ i < j
         /\ executionSteps[i].type = "declaration"
         /\ executionSteps[j].type = "declaration"
         /\ \E a \in MemoryKeys(i) : \E b \in MemoryKeys(j) :
              /\ executionSteps[i].changes.memory[a].name = "x"
              /\ executionSteps[i].changes.memory[a].value = 10
              /\ executionSteps[j].changes.memory[b].name = "ptr"
              /\ executionSteps[j].changes.memory[b].value = a

\* the memory, the heap and the output that the deltas of the first k
\* steps give, applied in order to the empty state
RECURSIVE ReplayMemory(_), ReplayHeap(_), ReplayOutput(_)
ReplayMemory(k) ==
  IF k = 0 THEN Absent
  ELSE executionSteps[k].changes.memory @@ ReplayMemory(k - 1)

ReplayHeap(k) ==
  IF k = 0 THEN Absent
  ELSE executionSteps[k].changes.heap @@ ReplayHeap(k - 1)

ReplayOutput(k) ==
  IF k = 0 THEN ""
  ELSE ReplayOutput(k - 1) \o executionSteps[k].changes.saida

\* C19: after generateExecutionSteps has run on a reset state,
\* appState.memory holds for each address the cell of the last memory delta
\* for it, appState.heap holds for each address the size and the freed flag
\* of the last heap delta for it, and appState.consoleOutput is the
\* concatenation of the output deltas in step order.
C19_StateIsReplay ==
  pc = "show" =>
    /\ DOMAIN memory = DOMAIN ReplayMemory(Len(executionSteps))
    /\ \A a \in DOMAIN memory :
         /\ memory[a].name = ReplayMemory(Len(executionSteps))[a].name
         /\ memory[a].type = ReplayMemory(Len(executionSteps))[a].type
         /\ memory[a].value = ReplayMemory(Len(executionSteps))[a].value
    /\ DOMAIN heap = DOMAIN ReplayHeap(Len(executionSteps))
    /\ \A a \in DOMAIN heap :
         /\ heap[a].size = ReplayHeap(Len(executionSteps))[a].size
         /\ heap[a].freed = ReplayHeap(Len(executionSteps))[a].freed
    /\ consoleOutput = ReplayOutput(Len(executionSteps))

\* a generation has written memory cells, a heap block and output
C19_AllThreeWritten ==
  /\ pc = "show"
  /\ DOMAIN memory # {}
  /\ DOMAIN heap # {}
  /\ consoleOutput # ""
  /\ \E a \in DOMAIN memory : Cardinality({k \in DOMAIN executionSteps : a \in MemoryKeys(k)}) > 1

\* C20: after the generation of a trace that ends with a return step whose
\* stack delta removes main, appState.stack holds no frame.
C20_FramePopped ==
  (pc = "show" /\
   \E k \in DOMAIN executionSteps :
     /\ executionSteps[k].type = "return"
     /\ "main" \in DOMAIN executionSteps[k].changes.stack
     /\ "remove" \in DOMAIN executionSteps[k].changes.stack.main) =>
    stack = <<>>

\* C21: every step of a generated trace carries a line number between 1 and
\* the number of lines of the source text.
C21_LinesInSource ==
  pc = "show" =>
    \A k \in DOMAIN executionSteps :
      /\ 1 <= executionSteps[k].line
      /\ executionSteps[k].line <= Len(SplitLines(code))

\* the fields a run writes
RunState ==
  [tokens |-> tokens, ast |-> ast, executionSteps |-> executionSteps,
   currentStep |-> currentStep, memory |-> memory, stack |-> stack,
   heap |-> heap, consoleOutput |-> consoleOutput, errors |-> errors]

\* the fields at the end of executeCode on the text given, when the handler
\* starts in the state the constructor leaves
FreshRun(text) ==
  Let(tokenize(text), LAMBDA fresh :
    Let(parse(fresh), LAMBDA parsed :
      IF parsed.st # "ok" THEN
        [tokens |-> fresh, ast |-> <<>>, executionSteps |-> <<>>,
         currentStep |-> 0, memory |-> Absent, stack |-> <<>>, heap |-> Absent,
         consoleOutput |-> "", errors |-> <<>>]
      ELSE
        Let(generateExecutionSteps(text, fresh, <<parsed.node>>,
                                   [memory |-> Absent, stack |-> <<>>,
                                    heap |-> Absent, consoleOutput |-> ""],
                                   <<>>),
            LAMBDA generated :
              [tokens |-> fresh, ast |-> <<parsed.node>>,
               executionSteps |-> generated.steps, currentStep |-> 0,
               memory |-> generated.memory, stack |-> generated.stack,
               heap |-> generated.heap,
               consoleOutput |-> generated.consoleOutput,
               errors |-> generated.errors])))

\* C22: a run replaces the run state wholesale.  When executeCode ends, from
\* whatever state it started, tokens, ast, executionSteps, currentStep,
\* memory, stack, heap, consoleOutput and errors are the ones the same run
\* gives from the initial state.
C22_RunReplacesState ==
  [][(pc # "idle" /\ pc' = "idle") => RunState' = FreshRun(code')]_vars

\* a run has ended on a program other than the one the application starts
\* with, after a change of the speed, and has left a trace and variables
C22_LaterRunEnded ==
  /\ pc = "idle"
  /\ code = "int main(){ a[0] = 1; }"
  /\ Len(executionSteps) > 1
  /\ memory # Absent
  /\ executionSpeed = 10

\* C23: a run whose stage fails leaves an entry in appState.errors.  After a
\* run in which parse has thrown (the tokens are set, the tree is not), and
\* after a generation whose scripted generator is missing, the error list
\* is not empty and its last entry carries a message and a severity.
C23_FailureRecorded ==
  ((pc = "idle" /\ tokens # <<>> /\ ast = <<>>) \/
   (pc = "show" /\ codeType \in DOMAIN UndefinedGenerators)) =>
    /\ errors # <<>>
    /\ errors[Len(errors)].message # ""
    /\ errors[Len(errors)].type = "error"

\* C24: between runs the step list is immutable.  A step of any handler
\* other than executeCode (navigation, the interval callback, the speed
\* control, interactive input) leaves executionSteps as it was.
C24_StepsImmutable ==
  [][(pc = "idle" /\ pc' = "idle") => executionSteps' = executionSteps]_vars

C26_BitwiseClassified ==
  (pc = "show" /\ code \in BitwiseSources) => codeType = "bitwise"

\* C27: a change of the execution speed while auto-execution is active
\* leaves it active: after the step isRunning is true and exactly one
\* interval is live, the one intervalId names, with the new speed as its
\* period 1000 / speed.
C27_SpeedChangeKeepsRunning ==
  [][(pc = "idle" /\ isRunning /\ executionSpeed' # executionSpeed) =>
       /\ isRunning'
       /\ intervalId' # NoInterval
       /\ intervals' = {[id |-> intervalId', speed |-> executionSpeed']}]_vars

\* C28: in every reachable state the cursor is in range: currentStep is 0
\* when executionSteps is empty, and otherwise it is an index of the list
\* (0 <= currentStep < length).  A navigation call that would leave the
\* range writes nothing, so no state beyond the range is ever reached.
C28_CursorInRange ==
  IF executionSteps = <<>> THEN currentStep = 0
  ELSE currentStep >= 0 /\ currentStep < Len(executionSteps)

\* the cursor is on the last step of a trace of several steps, where
\* goToNextStep would leave the range
C28_CursorOnLastStep ==
  /\ pc = "idle"
  /\ Len(executionSteps) > 2
  /\ currentStep = Len(executionSteps) - 1

\* C29: in every state between two handlers isRunning is true exactly when
\* intervalId names an interval, the live intervals are at most one, and a
\* live interval is the one intervalId names: no interval is leaked.
C29_OneTimerWhenRunning ==
  /\ isRunning <=> intervalId # NoInterval
  /\ Cardinality(intervals) <= 1
  /\ \A t \in intervals : t.id = intervalId
  /\ isRunning <=> intervals # {}

\* auto-execution has been started again after a change of speed, with the
\* cursor advanced by the callback
C29_RunningAfterSpeedChange ==
  /\ pc = "idle"
  /\ isRunning
  /\ executionSpeed = 10
  /\ intervals = {[id |-> intervalId, speed |-> 10]}
  /\ currentStep > 0

\* C30: auto-execution left to itself stops by itself.  Each call of the
\* interval callback before the last step moves the cursor forward by
\* exactly one and keeps auto-execution on; the call on the last step (or on
\* an empty list) leaves the cursor where it is, turns isRunning off and
\* clears the interval; the cursor never passes the last step; and, as the
\* live interval keeps firing, a started auto-execution is eventually off
\* with no interval live.
C30_StopsByItself ==
  /\ [][IntervalCallback =>
          /\ isRunning
          /\ IF currentStep < Len(executionSteps) - 1
               THEN /\ currentStep' = currentStep + 1
                    /\ isRunning'
                    /\ intervals' = intervals
               ELSE /\ currentStep' = currentStep
                    /\ ~isRunning'
                    /\ intervalId' = NoInterval
                    /\ intervals' = {}
          /\ currentStep' <= Len(executionSteps) - 1 \/ executionSteps = <<>>]_vars
  /\ isRunning ~> (~isRunning /\ intervals = {})

\* auto-execution has walked the cursor to the last step of a trace and is
\* off, with no interval live
C30_StoppedOnLastStep ==
  /\ pc = "idle"
  /\ Len(executionSteps) > 2
  /\ currentStep = Len(executionSteps) - 1
  /\ ~isRunning
  /\ intervals = {}
  /\ intervalId = NoInterval

====
